---- MODULE Spec2Model ----
(***************************************************************************)
(* Model of the voice-lane audio services.                                 *)
(*                                                                         *)
(*   ContinuousAudioService   src/lib/continuous_audio_service.py          *)
(*   StreamingAudioService    src/lib/streaming_audio_service.py           *)
(*   WhisperStreamingService  src/lib/whisper_streaming_service.py         *)
(*                                                                         *)
(* Time is counted in frame periods (one tick = chunk_size / sample_rate   *)
(* seconds, the length of one captured frame).  An audio frame is          *)
(* identified by the clock value at which the capture loop handled it, and *)
(* an utterance by the sequence of frames written to its WAV file, so      *)
(* "duration" (sample_count / sample_rate) is the number of frames.        *)
(***************************************************************************)
EXTENDS Integers, Sequences, FiniteSets, TLC

----------------------------------------------------------------------------
(* Bounds of the model. *)

\* The clock stops being advanced at MaxTime ticks.
MaxTime == 12
\* A read of the audio stream returns 1..MaxGap ticks after the previous one
\* (1 = frames arrive back to back in real time).
MaxGap == 2
\* min_speech_duration (0.5 s), silence_duration (2.0 s) and
\* max_speech_duration (30.0 s) of continuous_audio_service.py:46-48,
\* scaled down to a few frame periods, in the same order
\* min_speech_duration < silence_duration < max_speech_duration.
\* At most MaxWavErrors WAV writes of finalize fail.
MaxWavErrors == 1
MinSpeechTicks == 2
SilenceTicks == 3
MaxSpeechTicks == 5
\* The clock of StreamingAudioService stops being advanced at SasMaxTime.
SasMaxTime == 6
\* min_audio_duration_ms (200), silence_threshold_ms (800) and
\* max_audio_duration_ms (10000) of streaming_audio_service.py:73-75, scaled
\* down to a few frame periods (chunk_duration_ms), in the same order.
SasMinTicks == 2
SasSilenceTicks == 3
SasMaxTicks == 4
\* maxsize of processing_queue (10) and of transcription_results (20),
\* streaming_audio_service.py:97 and :100, scaled down, in the same order.
ProcessingQueueMax == 2
ResultsQueueMax == 3

----------------------------------------------------------------------------
(* State of ContinuousAudioService. *)

VARIABLES
    now,                  \* time.time() of the frame handled last
    is_speech,            \* classification of the frame handled last
    wav_errors,           \* finalize calls whose WAV write raised, so far
    total_chunks,
    speech_chunks,
    processed_utterances,
    recording_speech,
    agent_speaking,
    last_speech_time,
    speech_start_time,
    speech_frames,
    speech_queue,
    buffered_speech,
    returned,             \* utterances handed out by get_next_speech, in order
    listening,
    audio_threads,        \* _audio_capture_loop threads that are running
    stopped_at,           \* the clock when stop_listening ran last (0: never)
    start_noop,           \* a start_listening call has returned at line 83
    discarded_frames,     \* frames dropped by the "too short" branch (line 250)
    last_get,             \* what the last get_next_speech call returned
    device_gone,          \* the audio device is gone: every read raises
    read_pc,              \* capture thread: "read" (line 175), "sleep" (line 192)
    cap_alive,            \* an _audio_capture_loop thread has not ended
    mon_pc,               \* _processing_loop thread: "none" (not running),
                          \* "test" (line 312), "sleep" (line 316)
    \* The capture thread inside _finalize_speech_recording, and the caller's
    \* thread inside set_agent_speaking / _process_buffered_speech, when the
    \* two are interleaved (SpecRace).
    cap_pc,               \* "idle", "finalize", "stamped", "routed"
    cap_data,             \* speech_data, once built (lines 274-279)
    cap_route,            \* agent_speaking as read by line 282
    ctl_pc,               \* "idle", "drain", "get", "put"
    ctl_data,             \* speech_data taken by get_nowait (line 302)
    \* StreamingAudioService.
    sas_now,              \* time.time() * 1000 of the frame its loop handled last
    is_streaming,
    audio_buffer,
    sas_last_speech_time,
    sas_speech_start_time,
    processing_queue,
    transcription_results,
    total_processed,
    clean_text,           \* clean_text of the segment processed last
    dropped_audio,        \* segments evicted from processing_queue (line 304)
    dropped_results,      \* results evicted from transcription_results (line 373)
    processing_alive,     \* a _processing_loop thread is running
    taken,                \* the audio_info dequeued by _processing_loop, in order
    sas_start_noop,       \* a start_realtime_capture call has returned at line 117
    \* The thread inside _queue_audio_for_processing and the thread inside
    \* _processing_loop, when the two are interleaved (SpecStreamRace).
    q_pc,                 \* "idle", "put", "evict", "reput", "finally"
    q_data,               \* audio_info (lines 293-297)
    p_pc,                 \* "idle", "process"
    p_data,               \* audio_data of _processing_loop (line 244)
    \* The caller's thread inside stop_realtime_capture, when it is
    \* interleaved with the two loops (SpecStopRace).
    s_pc,                 \* "idle", "flush", "put", "finally", "join"
    s_data,               \* its audio_info
    c_pc,                 \* the capture thread inside an iteration of
                          \* _capture_loop: "none" (no thread), "top", "read",
                          \* "stamp_last", "stamp_start"
    \* WhisperStreamingService.
    streaming_sessions,   \* session_id -> processor (0: no entry)
    session_lock,         \* the client that holds it (0: free)
    created,              \* created[k]: the session_id processor k was made for
    inserted,             \* inserted[k]: the chunks given to processor k
    ws_pc,                \* per client: where it is in stream_audio_chunk
    ws_sid,               \* per client: session_id of its call
    ws_processor,         \* per client: `processor` (line 243)
    ws_pushed,            \* per client: the session ids of its chunks so far
    ws_result,            \* per client: "status" of the result of its last call
    received,             \* received[k]: the chunks given to processor k, in order
    \* KrokoSTTService and its HTTP handler (kroko_stt_service.py).
    streaming_active,     \* service.streaming_active
    kroko_audio_buffer,   \* service.audio_buffer: the chunks held, oldest first
    model_loaded,         \* service.model_loaded
    kroko_requests,       \* streaming requests handled so far
    kroko_request,        \* the path of the last one
    kroko_status,         \* the 'status' of its response
    kroko_dropped,        \* chunks the last /stop_streaming cleared
    \* WhisperLiveKitStreamingService (whisper_livekit_service.py).
    lk_now,               \* the clock, in frames
    lk_streaming,         \* self.is_streaming
    lk_buffer,            \* self.audio_buffer: the frames held, oldest first
    lk_last_speech_time,  \* self.last_speech_time
    lk_speech_start_time, \* self.speech_start_time
    processing_lock,      \* the run that holds self.processing_lock (0: free)
    lk_pc,                \* per _process_audio_buffer run: "none", "start",
                          \* "wait", "run", "done"
    lk_audio,             \* per run: its audio_data (line 293)
    lk_spawned,           \* runs of _process_audio_buffer started so far
    lk_speech,            \* the frames _audio_callback classified as speech
    \* One call of ContinuousAudioService._detect_speech.
    ds_frame,             \* audio_np: the samples of the frame, 16 bits each
    ds_vad,               \* self.vad is there
    ds_vad_raises,        \* vad.is_speech raises
    ds_vad_answer,        \* what vad.is_speech returns when it does not
    ds_called,            \* _detect_speech has been called
    ds_result,            \* what the last call returned
    \* ContinuousAudioService.get_status.
    status,               \* the dict the last call of get_status returned
    \* One call of detect_speech(audio_file) of bin/vad_detector.py.
    vd_valid,             \* the file exists, is mono, 16-bit, at a VAD rate
    vd_len,               \* len(frames): the bytes of audio in the file
    vd_speech,            \* what vad.is_speech answers for each complete frame
    vd_raises,            \* reading the file or the VAD raises
    vd_big,               \* os.path.getsize(audio_file) > 1000
    vd_called,            \* detect_speech has been called
    vd_total,             \* total_frames when it returned
    vd_result             \* what it returned

casVars == <<now, is_speech, wav_errors, total_chunks, speech_chunks,
             processed_utterances, recording_speech, agent_speaking,
             last_speech_time, speech_start_time, speech_frames,
             speech_queue, buffered_speech, returned>>

\* The life cycle of the service (start_listening, stop_listening).
lifeVars == <<listening, audio_threads, stopped_at, start_noop>>

\* What became of the frames and of the calls so far.
histVars == <<discarded_frames, last_get>>

\* The audio stream's reads, as _audio_capture_loop sees them.
faultVars == <<device_gone, read_pc>>

\* The two threads start_listening starts, as far as their ending goes.
loopVars == <<cap_alive, mon_pc>>

raceVars == <<cap_pc, cap_data, cap_route, ctl_pc, ctl_data>>

sasVars == <<sas_now, is_streaming, audio_buffer, sas_last_speech_time,
             sas_speech_start_time, processing_queue, transcription_results,
             total_processed, clean_text, dropped_audio, dropped_results,
             processing_alive, taken>>

sasRaceVars == <<q_pc, q_data, p_pc, p_data>>

stopVars == <<s_pc, s_data>>

iterVars == <<c_pc>>

whisperVars == <<streaming_sessions, session_lock, created, inserted, ws_pc,
                 ws_sid, ws_processor, ws_pushed, ws_result, received>>

krokoVars == <<streaming_active, kroko_audio_buffer, model_loaded,
               kroko_requests, kroko_request, kroko_status, kroko_dropped>>

lkVars == <<lk_now, lk_streaming, lk_buffer, lk_last_speech_time,
            lk_speech_start_time, processing_lock, lk_pc, lk_audio, lk_spawned,
            lk_speech>>

detectVars == <<ds_frame, ds_vad, ds_vad_raises, ds_vad_answer, ds_called,
                ds_result>>

statusVars == <<status>>

vadVars == <<vd_valid, vd_len, vd_speech, vd_raises, vd_big, vd_called,
             vd_total, vd_result>>

vars == <<casVars, lifeVars, histVars, faultVars, loopVars, raceVars, sasVars,
          sas_start_noop, sasRaceVars, stopVars, whisperVars, krokoVars,
          lkVars,
    detectVars,
    statusVars,
    iterVars,
    vadVars>>

\* What the steps of one service leave alone: the state of the others.
notCAS == <<sasVars, sas_start_noop, sasRaceVars, stopVars, whisperVars,
            krokoVars, lkVars,
    detectVars,
    statusVars,
    iterVars,
    vadVars>>
notSAS == <<casVars, lifeVars, histVars, faultVars, loopVars, raceVars, whisperVars,
            krokoVars, lkVars,
    detectVars,
    statusVars,
    vadVars>>
notWhisper == <<casVars, lifeVars, histVars, faultVars, loopVars, raceVars, sasVars,
                sas_start_noop, sasRaceVars, stopVars, krokoVars, lkVars,
    detectVars,
    statusVars,
    iterVars,
    vadVars>>
notKroko == <<casVars, lifeVars, histVars, faultVars, loopVars, raceVars, sasVars,
              sas_start_noop, sasRaceVars, stopVars, whisperVars, lkVars,
    detectVars,
    statusVars,
    iterVars,
    vadVars>>
notLk == <<casVars, lifeVars, histVars, faultVars, loopVars, raceVars, sasVars,
           sas_start_noop, sasRaceVars, stopVars, whisperVars, krokoVars,
    detectVars,
    statusVars,
    iterVars,
    vadVars>>
notDetect == <<casVars, lifeVars, histVars, faultVars, loopVars, raceVars, sasVars,
          sas_start_noop, sasRaceVars, stopVars, whisperVars, krokoVars,
          lkVars,
    statusVars,
    iterVars,
    vadVars>>
notStatus == <<casVars, lifeVars, histVars, faultVars, loopVars, raceVars, sasVars,
          sas_start_noop, sasRaceVars, stopVars, whisperVars, krokoVars,
          lkVars,
    detectVars,
    iterVars,
    vadVars>>
notVad == <<casVars, lifeVars, histVars, faultVars, loopVars, raceVars, sasVars,
          sas_start_noop, sasRaceVars, stopVars, whisperVars, krokoVars,
          lkVars,
    detectVars,
    statusVars,
    iterVars>>

\* The value of status before get_status was ever called.
NoStatus == [called               |-> FALSE,
             listening            |-> FALSE,
             recording_speech     |-> FALSE,
             agent_speaking       |-> FALSE,
             total_chunks         |-> 0,
             speech_chunks        |-> 0,
             processed_utterances |-> 0,
             queue_size           |-> 0,
             buffered_size        |-> 0]

\* The value of a local variable that holds nothing.
None == [frames |-> <<>>, agent_was_speaking |-> FALSE]

\* speech_data of _finalize_speech_recording: the WAV file's frames and the
\* agent_speaking stamp; duration = len(speech_audio) / sample_rate.
SpeechData(frames, flag) == [frames |-> frames, agent_was_speaking |-> flag]

Duration(u) == Len(u.frames)

\* ContinuousAudioService.__init__
InitCAS ==
    /\ now = 0
    /\ is_speech = FALSE
    /\ wav_errors = 0
    /\ total_chunks = 0
    /\ speech_chunks = 0
    /\ processed_utterances = 0
    /\ recording_speech = FALSE
    /\ agent_speaking = FALSE
    /\ last_speech_time = 0
    /\ speech_start_time = 0
    /\ speech_frames = <<>>
    /\ speech_queue = <<>>
    /\ buffered_speech = <<>>
    /\ returned = <<>>
    /\ listening = FALSE
    /\ audio_threads = 0
    /\ stopped_at = 0
    /\ start_noop = FALSE
    /\ device_gone = FALSE
    /\ read_pc = "read"
    /\ cap_alive = FALSE
    /\ mon_pc = "none"
    /\ discarded_frames = 0
    /\ last_get = None
    /\ status = NoStatus

\* get_status reporting every utterance held, in either queue, as queue_size.
GetStatusCountingBoth ==
    /\ UNCHANGED notStatus
    /\ status' = [called               |-> TRUE,
                  listening            |-> listening,
                  recording_speech     |-> recording_speech,
                  agent_speaking       |-> agent_speaking,
                  total_chunks         |-> total_chunks,
                  speech_chunks        |-> speech_chunks,
                  processed_utterances |-> processed_utterances,
                  queue_size           |-> Len(speech_queue) + Len(buffered_speech),
                  buffered_size        |-> Len(buffered_speech)]

\* get_status(): the dict built from the fields and the two qsize().
GetStatus ==
    /\ UNCHANGED notStatus
    /\ status' = [called               |-> TRUE,
                  listening            |-> listening,
                  recording_speech     |-> recording_speech,
                  agent_speaking       |-> agent_speaking,
                  total_chunks         |-> total_chunks,
                  speech_chunks        |-> speech_chunks,
                  processed_utterances |-> processed_utterances,
                  queue_size           |-> Len(speech_queue),
                  buffered_size        |-> Len(buffered_speech)]

\* Dispatch with its two branches exchanged.
DispatchSwapped(sq, bq, speech_data, flag) ==
    IF flag
    THEN [speech_queue |-> Append(sq, speech_data), buffered_speech |-> bq]
    ELSE [speech_queue |-> sq, buffered_speech |-> Append(bq, speech_data)]

\* "Queue based on agent state" of _finalize_speech_recording: the two queues
\* after speech_data was put, the routing flag being agent_speaking as read
\* at line 282.
Dispatch(sq, bq, speech_data, flag) ==
    IF flag
    THEN [speech_queue |-> sq, buffered_speech |-> Append(bq, speech_data)]
    ELSE [speech_queue |-> Append(sq, speech_data), buffered_speech |-> bq]

\* FinalizeSpeechRecording without its finally block: the accumulator and
\* recording_speech are left as they were.
FinalizeSpeechRecordingNoReset(frames, ok) ==
    /\ recording_speech' = TRUE
    /\ speech_frames' = frames
    /\ IF frames = <<>>
       THEN UNCHANGED <<speech_queue, buffered_speech, processed_utterances, wav_errors>>
       ELSE IF ~ok
            THEN /\ wav_errors' = wav_errors + 1
                 /\ UNCHANGED <<speech_queue, buffered_speech, processed_utterances>>
            ELSE LET q == Dispatch(speech_queue, buffered_speech,
                                      SpeechData(frames, agent_speaking),
                                      agent_speaking)
                 IN  /\ speech_queue' = q.speech_queue
                     /\ buffered_speech' = q.buffered_speech
                     /\ processed_utterances' = processed_utterances + 1
                     /\ UNCHANGED wav_errors

\* FinalizeSpeechRecording queueing the utterance although the WAV file
\* could not be written.
FinalizeSpeechRecordingQueueingUnsaved(frames, ok) ==
    /\ recording_speech' = FALSE
    /\ speech_frames' = <<>>
    /\ IF frames = <<>>
       THEN UNCHANGED <<speech_queue, buffered_speech, processed_utterances, wav_errors>>
       ELSE LET q == Dispatch(speech_queue, buffered_speech,
                              SpeechData(frames, agent_speaking),
                              agent_speaking)
            IN  /\ speech_queue' = q.speech_queue
                /\ buffered_speech' = q.buffered_speech
                /\ processed_utterances' = processed_utterances + 1
                /\ wav_errors' = IF ok THEN wav_errors ELSE wav_errors + 1

\* FinalizeSpeechRecording keeping the accumulator when the WAV file could
\* not be written.
FinalizeSpeechRecordingKeepingUnsaved(frames, ok) ==
    /\ recording_speech' = FALSE
    /\ IF frames = <<>>
       THEN /\ speech_frames' = <<>>
            /\ UNCHANGED <<speech_queue, buffered_speech, processed_utterances, wav_errors>>
       ELSE IF ~ok
            THEN /\ wav_errors' = wav_errors + 1
                 /\ speech_frames' = frames
                 /\ UNCHANGED <<speech_queue, buffered_speech, processed_utterances>>
            ELSE LET q == Dispatch(speech_queue, buffered_speech,
                                      SpeechData(frames, agent_speaking),
                                      agent_speaking)
                 IN  /\ speech_frames' = <<>>
                     /\ speech_queue' = q.speech_queue
                     /\ buffered_speech' = q.buffered_speech
                     /\ processed_utterances' = processed_utterances + 1
                     /\ UNCHANGED wav_errors

\* _finalize_speech_recording on the accumulator `frames`; ok says whether
\* the WAV file could be written.
FinalizeSpeechRecording(frames, ok) ==
    /\ recording_speech' = FALSE
    /\ speech_frames' = <<>>
    /\ IF frames = <<>>
       THEN UNCHANGED <<speech_queue, buffered_speech, processed_utterances, wav_errors>>
       ELSE IF ~ok
            THEN /\ wav_errors' = wav_errors + 1
                 /\ UNCHANGED <<speech_queue, buffered_speech, processed_utterances>>
            ELSE LET q == Dispatch(speech_queue, buffered_speech,
                                      SpeechData(frames, agent_speaking),
                                      agent_speaking)
                 IN  /\ speech_queue' = q.speech_queue
                     /\ buffered_speech' = q.buffered_speech
                     /\ processed_utterances' = processed_utterances + 1
                     /\ UNCHANGED wav_errors

\* Extend assigning the frame where it should append it.
ExtendReplacing(frames, t) == <<t>>

\* Extend losing the frame.
ExtendSkipping(frames, t) == frames

\* self.speech_frames.extend(audio_np): the frame handled at time t joins the
\* accumulator.
Extend(frames, t) == Append(frames, t)

\* current_time - self.speech_start_time > self.max_speech_duration
MaxDurationReached(t, start) == t - start > MaxSpeechTicks

\* SilenceReached with > for >=.
SilenceReachedLate(t, last) == t - last > SilenceTicks

\* silence_duration >= self.silence_duration
SilenceReached(t, last) == t - last >= SilenceTicks

\* speech_duration >= self.min_speech_duration
LongEnough(t, start) == t - start >= MinSpeechTicks

\* HandleSpeechDetection taking a silence frame outside a recording for
\* the latest sound heard.
HandleSpeechDetectionStampingSilence(sp, t, ok) ==
    IF sp
    THEN LET start  == IF recording_speech THEN speech_start_time ELSE t
             frames == Extend(IF recording_speech THEN speech_frames ELSE <<>>, t)
         IN  /\ speech_chunks' = speech_chunks + 1
             /\ last_speech_time' = t
             /\ speech_start_time' = start
             /\ UNCHANGED discarded_frames
             /\ IF MaxDurationReached(t, start)
                THEN FinalizeSpeechRecording(frames, ok)
                ELSE /\ recording_speech' = TRUE
                     /\ speech_frames' = frames
                     /\ UNCHANGED <<speech_queue, buffered_speech,
                                    processed_utterances, wav_errors>>
    ELSE /\ UNCHANGED <<speech_chunks, speech_start_time>>
         /\ last_speech_time' = IF recording_speech THEN last_speech_time ELSE t
         /\ IF recording_speech /\ SilenceReached(t, last_speech_time)
            THEN IF LongEnough(t, speech_start_time)
                 THEN /\ FinalizeSpeechRecording(speech_frames, ok)
                      /\ UNCHANGED discarded_frames
                 ELSE /\ recording_speech' = FALSE
                      /\ speech_frames' = <<>>
                      /\ discarded_frames' = discarded_frames + Len(speech_frames)
                      /\ UNCHANGED <<speech_queue, buffered_speech,
                                     processed_utterances, wav_errors>>
            ELSE UNCHANGED <<recording_speech, speech_frames, speech_queue,
                             buffered_speech, processed_utterances, wav_errors,
                             discarded_frames>>

\* _handle_speech_detection(is_speech, audio_np) at current_time = t.
HandleSpeechDetection(sp, t, ok) ==
    IF sp
    THEN LET start  == IF recording_speech THEN speech_start_time ELSE t
             frames == Extend(IF recording_speech THEN speech_frames ELSE <<>>, t)
         IN  /\ speech_chunks' = speech_chunks + 1
             /\ last_speech_time' = t
             /\ speech_start_time' = start
             /\ UNCHANGED discarded_frames
             /\ IF MaxDurationReached(t, start)
                THEN FinalizeSpeechRecording(frames, ok)
                ELSE /\ recording_speech' = TRUE
                     /\ speech_frames' = frames
                     /\ UNCHANGED <<speech_queue, buffered_speech,
                                    processed_utterances, wav_errors>>
    ELSE /\ UNCHANGED <<speech_chunks, last_speech_time, speech_start_time>>
         /\ IF recording_speech /\ SilenceReached(t, last_speech_time)
            THEN IF LongEnough(t, speech_start_time)
                 THEN /\ FinalizeSpeechRecording(speech_frames, ok)
                      /\ UNCHANGED discarded_frames
                 ELSE /\ recording_speech' = FALSE
                      /\ speech_frames' = <<>>
                      /\ discarded_frames' = discarded_frames + Len(speech_frames)
                      /\ UNCHANGED <<speech_queue, buffered_speech,
                                     processed_utterances, wav_errors>>
            ELSE UNCHANGED <<recording_speech, speech_frames, speech_queue,
                             buffered_speech, processed_utterances, wav_errors,
                             discarded_frames>>

\* One iteration of _audio_capture_loop (while self.listening): read a frame,
\* classify it, handle it.
AudioCaptureLoop ==
    /\ UNCHANGED <<notCAS, loopVars, faultVars, lifeVars, last_get>>
    /\ listening
    /\ read_pc = "read" /\ ~device_gone
    /\ \E gap \in 1..MaxGap, sp \in BOOLEAN, ok \in BOOLEAN :
        /\ now + gap <= MaxTime
        /\ ok \/ wav_errors < MaxWavErrors
        /\ now' = now + gap
        /\ total_chunks' = total_chunks + 1
        /\ is_speech' = sp
        /\ HandleSpeechDetection(sp, now + gap, ok)
        /\ UNCHANGED <<agent_speaking, returned, raceVars>>

\* ProcessBufferedSpeech putting the held utterances in front.
ProcessBufferedSpeechInFront(sq, bq) ==
    [speech_queue |-> bq \o sq, buffered_speech |-> <<>>]

\* _process_buffered_speech run to completion: the queues after the drain.
ProcessBufferedSpeech(sq, bq) ==
    [speech_queue |-> sq \o bq, buffered_speech |-> <<>>]

\* set_agent_speaking(speaking), not interleaved with the capture thread.
SetAgentSpeaking ==
    /\ UNCHANGED <<notCAS, loopVars, faultVars, lifeVars, histVars>>
    /\ \E speaking \in BOOLEAN :
        /\ agent_speaking' = speaking
        /\ IF speaking
           THEN UNCHANGED <<speech_queue, buffered_speech>>
           ELSE LET q == ProcessBufferedSpeech(speech_queue, buffered_speech)
                IN  /\ speech_queue' = q.speech_queue
                    /\ buffered_speech' = q.buffered_speech
        /\ UNCHANGED <<now, is_speech, wav_errors, total_chunks, speech_chunks,
                       processed_utterances, recording_speech, last_speech_time,
                       speech_start_time, speech_frames, returned, raceVars>>

\* GetNextSpeech leaving the utterance it returns on the queue.
GetNextSpeechPeeking ==
    /\ UNCHANGED <<notCAS, loopVars, faultVars, lifeVars, discarded_frames>>
    /\ speech_queue # <<>>
    /\ last_get' = Head(speech_queue)
    /\ returned' = Append(returned, Head(speech_queue))
    /\ UNCHANGED <<now, is_speech, wav_errors, total_chunks, speech_chunks,
                   processed_utterances, recording_speech, agent_speaking,
                   last_speech_time, speech_start_time, speech_frames,
                   speech_queue, buffered_speech, raceVars>>

\* get_next_speech(timeout) with an utterance ready: speech_queue.get returns
\* the oldest one.
GetNextSpeech ==
    /\ UNCHANGED <<notCAS, loopVars, faultVars, lifeVars, discarded_frames>>
    /\ speech_queue # <<>>
    /\ last_get' = Head(speech_queue)
    /\ returned' = Append(returned, Head(speech_queue))
    /\ speech_queue' = Tail(speech_queue)
    /\ UNCHANGED <<now, is_speech, wav_errors, total_chunks, speech_chunks,
                   processed_utterances, recording_speech, agent_speaking,
                   last_speech_time, speech_start_time, speech_frames,
                   buffered_speech, raceVars>>

\* get_next_speech(timeout), timeout zero or finite, with speech_queue empty
\* until the timeout: queue.Empty is caught and None returned.
GetNextSpeechTimeout ==
    /\ UNCHANGED <<notCAS, loopVars, faultVars, lifeVars, discarded_frames>>
    /\ speech_queue = <<>>
    /\ last_get' = None
    /\ UNCHANGED <<casVars, raceVars>>

\* start_listening while not listening; opened says whether the audio stream
\* could be opened (if not, the except clause calls stop_listening).  The
\* accumulator, the timestamps and the queues are not touched.
StartListening ==
    /\ UNCHANGED <<notCAS, loopVars, faultVars, histVars>>
    /\ \E opened \in BOOLEAN :
        /\ ~listening
        /\ IF opened
           THEN /\ listening' = TRUE
                /\ audio_threads' = audio_threads + 1
                /\ UNCHANGED stopped_at
           ELSE /\ listening' = FALSE
                /\ stopped_at' = now
                /\ UNCHANGED audio_threads
        /\ UNCHANGED <<casVars, raceVars, start_noop>>

\* StartListeningAgain starting capture once more.
StartListeningAgainRestarting ==
    /\ UNCHANGED <<notCAS, loopVars, faultVars, histVars>>
    /\ listening
    /\ start_noop' = TRUE
    /\ audio_threads' = audio_threads + 1
    /\ UNCHANGED <<casVars, raceVars, listening, stopped_at>>

\* start_listening while listening: lines 82-83, it returns at once.
StartListeningAgain ==
    /\ UNCHANGED <<notCAS, loopVars, faultVars, histVars>>
    /\ listening
    /\ start_noop' = TRUE
    /\ UNCHANGED <<casVars, raceVars, listening, audio_threads, stopped_at>>

\* stop_listening while listening (otherwise it returns at once): the flag
\* is cleared, the stream closed and the threads joined; speech_frames,
\* recording_speech and the queues are not touched.
StopListening ==
    /\ UNCHANGED <<notCAS, loopVars, faultVars, histVars>>
    /\ listening
    /\ listening' = FALSE
    /\ audio_threads' = 0
    /\ stopped_at' = now
    /\ UNCHANGED <<casVars, raceVars, start_noop>>

----------------------------------------------------------------------------
(* StreamingAudioService: state and the handlers, not interleaved.         *)

\* audio_info of _queue_audio_for_processing: the copy of the buffer.
AudioInfo(buffer) == [audio_data |-> buffer]

\* The value of a local variable of StreamingAudioService that holds nothing.
NoAudio == AudioInfo(<<>>)

\* result_data of _process_audio_data: the text, and (for its duration and
\* timestamp) the audio it transcribes.
ResultData(text, audio_info) == [text |-> text, audio_data |-> audio_info.audio_data]

\* StreamingAudioService.__init__
InitSAS ==
    /\ sas_now = 0
    /\ is_streaming = FALSE
    /\ audio_buffer = <<>>
    /\ sas_last_speech_time = 0
    /\ sas_speech_start_time = 0
    /\ processing_queue = <<>>
    /\ transcription_results = <<>>
    /\ total_processed = 0
    /\ clean_text = ""
    /\ dropped_audio = 0
    /\ dropped_results = 0
    /\ processing_alive = FALSE
    /\ taken = <<>>
    /\ sas_start_noop = FALSE
    /\ q_pc = "idle"
    /\ q_data = NoAudio
    /\ p_pc = "idle"
    /\ p_data = NoAudio
    /\ s_pc = "idle"
    /\ s_data = NoAudio
    /\ c_pc = "none"

\* PutAudio refusing the new segment when the queue is full.
PutAudioDropNewest(queue, audio_info) ==
    IF Len(queue) < ProcessingQueueMax THEN Append(queue, audio_info) ELSE queue

\* Lines 299-308 with no other thread at the queue: put_nowait and, on
\* queue.Full, get_nowait and put_nowait again.
PutAudio(queue, audio_info) ==
    IF Len(queue) < ProcessingQueueMax
    THEN Append(queue, audio_info)
    ELSE Append(Tail(queue), audio_info)

\* Lines 369-376: under result_queue_lock, get_nowait if full(), then
\* put_nowait.
PutResult(queue, result_data) ==
    IF Len(queue) >= ResultsQueueMax
    THEN Append(Tail(queue), result_data)
    ELSE Append(queue, result_data)

\* _queue_audio_for_processing run to completion.
QueueAudioForProcessing ==
    IF audio_buffer = <<>>
    THEN UNCHANGED <<audio_buffer, sas_speech_start_time, sas_last_speech_time,
                     processing_queue, dropped_audio>>
    ELSE /\ processing_queue' = PutAudio(processing_queue, AudioInfo(audio_buffer))
         /\ dropped_audio' = IF Len(processing_queue) < ProcessingQueueMax
                             THEN dropped_audio ELSE dropped_audio + 1
         /\ audio_buffer' = <<>>
         /\ sas_speech_start_time' = 0
         /\ sas_last_speech_time' = 0

\* should_process and total_duration >= self.min_audio_duration_ms, lines
\* 218-227, at current_time = t.
ShouldProcess(t) ==
    /\ \/ t - sas_last_speech_time >= SasSilenceTicks
       \/ t - sas_speech_start_time >= SasMaxTicks
    /\ t - sas_speech_start_time >= SasMinTicks

\* One iteration of _capture_loop: read a frame, classify it, handle it.
CaptureLoop ==
    /\ UNCHANGED <<notSAS, iterVars, sas_start_noop, stopVars>>
    /\ \E gap \in 1..MaxGap, sp \in BOOLEAN :
        /\ is_streaming
        /\ sas_now + gap <= SasMaxTime
        /\ sas_now' = sas_now + gap
        /\ IF sp
           THEN /\ audio_buffer' = Append(audio_buffer, sas_now + gap)
                /\ sas_last_speech_time' = sas_now + gap
                /\ sas_speech_start_time' =
                     IF sas_speech_start_time = 0 THEN sas_now + gap
                                                  ELSE sas_speech_start_time
                /\ UNCHANGED <<processing_queue, dropped_audio>>
           ELSE IF audio_buffer # <<>> /\ ShouldProcess(sas_now + gap)
                THEN QueueAudioForProcessing
                ELSE UNCHANGED <<audio_buffer, sas_speech_start_time,
                                 sas_last_speech_time, processing_queue,
                                 dropped_audio>>
        /\ UNCHANGED <<is_streaming, transcription_results, total_processed,
                       clean_text, dropped_results, processing_alive, taken,
                       sasRaceVars>>

\* start_realtime_capture (a call while streaming returns at once).
StartRealtimeCapture ==
    /\ UNCHANGED <<notSAS, iterVars, sas_start_noop, stopVars>>
    /\ ~is_streaming
    /\ is_streaming' = TRUE
    /\ audio_buffer' = <<>>
    /\ processing_alive' = TRUE
    /\ UNCHANGED <<sas_now, sas_last_speech_time, sas_speech_start_time,
                   processing_queue, transcription_results, total_processed,
                   clean_text, dropped_audio, dropped_results, taken,
                   sasRaceVars>>

\* start_realtime_capture while streaming: lines 115-117, it logs "Already
\* streaming" and returns.
StartRealtimeCaptureAgain ==
    /\ UNCHANGED <<notSAS, iterVars>>
    /\ is_streaming
    /\ sas_start_noop' = TRUE
    /\ UNCHANGED <<sasVars, sasRaceVars, stopVars>>

\* stop_realtime_capture (a call while not streaming returns at once).
StopRealtimeCapture ==
    /\ UNCHANGED <<notSAS, iterVars, sas_start_noop, stopVars>>
    /\ is_streaming
    /\ is_streaming' = FALSE
    /\ QueueAudioForProcessing
    /\ UNCHANGED <<sas_now, transcription_results, total_processed, clean_text,
                   dropped_results, processing_alive, taken, sasRaceVars>>

\* ProcessAudioData storing a result whatever the text.
ProcessAudioDataStoringEmpty(audio_info, text) ==
    /\ total_processed' = total_processed + 1
    /\ clean_text' = text
    /\ transcription_results' =
          PutResult(transcription_results, ResultData(text, audio_info))
    /\ dropped_results' = IF Len(transcription_results) >= ResultsQueueMax
                          THEN dropped_results + 1 ELSE dropped_results

\* _process_audio_data(audio_info), the transcription being text.
ProcessAudioData(audio_info, text) ==
    /\ total_processed' = total_processed + 1
    /\ clean_text' = text
    /\ IF text # ""
       THEN /\ transcription_results' =
                 PutResult(transcription_results, ResultData(text, audio_info))
            /\ dropped_results' = IF Len(transcription_results) >= ResultsQueueMax
                                  THEN dropped_results + 1 ELSE dropped_results
       ELSE UNCHANGED <<transcription_results, dropped_results>>

\* One iteration of _processing_loop that finds a segment queued.
ProcessingLoop ==
    /\ UNCHANGED <<notSAS, iterVars, sas_start_noop, stopVars>>
    /\ \E text \in {"", "text"} :
        /\ processing_alive
        /\ processing_queue # <<>>
        /\ processing_queue' = Tail(processing_queue)
        /\ taken' = Append(taken, Head(processing_queue))
        /\ ProcessAudioData(Head(processing_queue), text)
        /\ UNCHANGED <<sas_now, is_streaming, audio_buffer, sas_last_speech_time,
                       sas_speech_start_time, dropped_audio, processing_alive,
                       sasRaceVars>>

\* _processing_loop leaves its loop: not streaming and nothing queued.
ProcessingLoopExit ==
    /\ UNCHANGED <<notSAS, iterVars, sas_start_noop, stopVars>>
    /\ processing_alive
    /\ ~is_streaming
    /\ processing_queue = <<>>
    /\ processing_alive' = FALSE
    /\ UNCHANGED <<sas_now, is_streaming, audio_buffer, sas_last_speech_time,
                   sas_speech_start_time, processing_queue, transcription_results,
                   total_processed, clean_text, dropped_audio, dropped_results,
                   taken, sasRaceVars>>

\* get_transcription_results with results pending: it takes them all.
GetTranscriptionResults ==
    /\ UNCHANGED <<notSAS, iterVars, sas_start_noop, stopVars>>
    /\ transcription_results # <<>>
    /\ transcription_results' = <<>>
    /\ UNCHANGED <<sas_now, is_streaming, audio_buffer, sas_last_speech_time,
                   sas_speech_start_time, processing_queue, total_processed,
                   clean_text, dropped_audio, dropped_results, processing_alive,
                   taken, sasRaceVars>>

InitRaceVars ==
    /\ cap_pc = "idle"
    /\ cap_data = None
    /\ cap_route = FALSE
    /\ ctl_pc = "idle"
    /\ ctl_data = None

----------------------------------------------------------------------------
(* WhisperStreamingService: stream_audio_chunk called by several clients   *)
(* at once (threads that share the service object).  Each client sends one *)
(* chunk, named after the client; self.asr is initialized and the chunk    *)
(* converts without error.  A processor is named by its order of creation. *)

\* Clients calling stream_audio_chunk, and session ids they may name.
MaxClients == 3
MaxSessions == 2

Clients == 1..MaxClients
SessionIds == 1..MaxSessions

\* WhisperStreamingService.__init__, lines 92-94.
InitWhisper ==
    /\ streaming_sessions = [s \in SessionIds |-> 0]
    /\ session_lock = 0
    /\ created = <<>>
    /\ inserted = [k \in Clients |-> {}]
    /\ ws_pc = [c \in Clients |-> "idle"]
    /\ ws_sid = [c \in Clients |-> 0]
    /\ ws_processor = [c \in Clients |-> 0]
    /\ ws_pushed = [c \in Clients |-> <<>>]
    /\ ws_result = [c \in Clients |-> "none"]
    /\ received = [k \in Clients |-> <<>>]

\* StreamAcquire entering without taking session_lock.
StreamAcquireUnlocked(c) ==
    /\ UNCHANGED notWhisper
    /\ ws_pc[c] = "call"
    /\ ws_pc' = [ws_pc EXCEPT ![c] = "check"]
    /\ UNCHANGED <<streaming_sessions, session_lock, created, inserted, ws_sid,
                   ws_processor, ws_pushed, ws_result, received>>

\* Client c calls stream_audio_chunk(session_id, audio_chunk).
StreamCall(c) ==
    /\ UNCHANGED notWhisper
    /\ \E sid \in SessionIds :
        /\ ws_pc[c] = "idle"
        /\ ws_pc' = [ws_pc EXCEPT ![c] = "call"]
        /\ ws_sid' = [ws_sid EXCEPT ![c] = sid]
        /\ ws_pushed' = [ws_pushed EXCEPT ![c] = Append(@, sid)]
        /\ ws_result' = [ws_result EXCEPT ![c] = "none"]
        /\ UNCHANGED <<streaming_sessions, session_lock, created, inserted,
                       ws_processor, received>>

\* Line 238: with self.session_lock (the client waits until it is free).
StreamAcquire(c) ==
    /\ UNCHANGED notWhisper
    /\ ws_pc[c] = "call"
    /\ session_lock = 0
    /\ session_lock' = c
    /\ ws_pc' = [ws_pc EXCEPT ![c] = "check"]
    /\ UNCHANGED <<streaming_sessions, created, inserted, ws_sid, ws_processor,
                   ws_pushed, ws_result, received>>

\* Line 239: if session_id not in self.streaming_sessions.
StreamCheck(c) ==
    /\ UNCHANGED notWhisper
    /\ ws_pc[c] = "check"
    /\ ws_pc' = [ws_pc EXCEPT ![c] =
                    IF streaming_sessions[ws_sid[c]] = 0 THEN "create" ELSE "fetch"]
    /\ UNCHANGED <<streaming_sessions, session_lock, created, inserted, ws_sid,
                   ws_processor, ws_pushed, ws_result, received>>

\* Line 241: a new OnlineASRProcessor is stored under session_id.
StreamCreate(c) ==
    /\ UNCHANGED notWhisper
    /\ ws_pc[c] = "create"
    /\ created' = Append(created, ws_sid[c])
    /\ streaming_sessions' =
          [streaming_sessions EXCEPT ![ws_sid[c]] = Len(created) + 1]
    /\ ws_pc' = [ws_pc EXCEPT ![c] = "fetch"]
    /\ UNCHANGED <<session_lock, inserted, ws_sid, ws_processor, ws_pushed,
                   ws_result, received>>

\* StreamFetch taking the processor made last, whatever its session.
StreamFetchLatest(c) ==
    /\ UNCHANGED notWhisper
    /\ ws_pc[c] = "fetch"
    /\ ws_processor' = [ws_processor EXCEPT ![c] = Len(created)]
    /\ session_lock' = IF session_lock = c THEN 0 ELSE session_lock
    /\ ws_pc' = [ws_pc EXCEPT ![c] = "insert"]
    /\ UNCHANGED <<streaming_sessions, created, inserted, ws_sid, ws_pushed,
                   ws_result, received>>

\* Line 243, and the end of the with block: the lock is released if held.
StreamFetch(c) ==
    /\ UNCHANGED notWhisper
    /\ ws_pc[c] = "fetch"
    /\ ws_processor' = [ws_processor EXCEPT ![c] = streaming_sessions[ws_sid[c]]]
    /\ session_lock' = IF session_lock = c THEN 0 ELSE session_lock
    /\ ws_pc' = [ws_pc EXCEPT ![c] = "insert"]
    /\ UNCHANGED <<streaming_sessions, created, inserted, ws_sid, ws_pushed,
                   ws_result, received>>

\* The chunk of client c's current call: its n-th, pushed with ws_sid[c].
Chunk(c) == [client |-> c, n |-> Len(ws_pushed[c]), sid |-> ws_sid[c]]

\* Lines 245-266: processor.insert_audio_chunk(audio_data), and the return.
StreamInsert(c) ==
    /\ UNCHANGED notWhisper
    /\ ws_pc[c] = "insert"
    /\ inserted' = [inserted EXCEPT ![ws_processor[c]] = @ \cup {c}]
    /\ received' = [received EXCEPT ![ws_processor[c]] = Append(@, Chunk(c))]
    /\ ws_result' = [ws_result EXCEPT ![c] = "success"]
    /\ ws_pc' = [ws_pc EXCEPT ![c] = "done"]
    /\ UNCHANGED <<streaming_sessions, session_lock, created, ws_sid,
                   ws_processor, ws_pushed>>

NextWhisper ==
    \E c \in Clients :
        \/ StreamCall(c)
        \/ StreamAcquire(c)
        \/ StreamCheck(c)
        \/ StreamCreate(c)
        \/ StreamFetch(c)
        \/ StreamInsert(c)

\* ---------------------------------------------------------------------
\* KrokoSTTService streaming (kroko_stt_service.py): the handlers of
\* /start_streaming, /stop_streaming and /stream_audio, run one at a time
\* by the HTTPServer of line 593.
\* ---------------------------------------------------------------------
MaxKrokoRequests == 7
\* sample_rate // 2 (line 495) and sample_rate * 15 (line 520), in chunks.
KrokoMinChunks == 2
KrokoMaxBufferChunks == 3

InitKroko ==
    /\ streaming_active = FALSE
    /\ kroko_audio_buffer = <<>>
    /\ model_loaded = FALSE
    /\ kroko_requests = 0
    /\ kroko_request = "none"
    /\ kroko_status = "none"
    /\ kroko_dropped = 0

\* load_model (lines 64-96) succeeds.
KrokoLoadModel ==
    /\ UNCHANGED notKroko
    /\ ~model_loaded
    /\ model_loaded' = TRUE
    /\ UNCHANGED <<streaming_active, kroko_audio_buffer, kroko_requests,
                   kroko_request, kroko_status, kroko_dropped>>

\* handle_start_streaming (lines 414-425).
KrokoStartStreaming ==
    /\ UNCHANGED notKroko
    /\ kroko_requests < MaxKrokoRequests
    /\ streaming_active' = TRUE
    /\ kroko_audio_buffer' = <<>>
    /\ kroko_requests' = kroko_requests + 1
    /\ kroko_request' = "start_streaming"
    /\ kroko_status' = "success"
    /\ UNCHANGED <<model_loaded, kroko_dropped>>

\* handle_stop_streaming (lines 427-436).
KrokoStopStreaming ==
    /\ UNCHANGED notKroko
    /\ kroko_requests < MaxKrokoRequests
    /\ streaming_active' = FALSE
    /\ kroko_audio_buffer' = <<>>
    /\ kroko_dropped' = Len(kroko_audio_buffer)
    /\ kroko_requests' = kroko_requests + 1
    /\ kroko_request' = "stop_streaming"
    /\ kroko_status' = "success"
    /\ UNCHANGED model_loaded

\* The buffer after a speech chunk was added to it (lines 491-522): it is
\* cleared when it has grown beyond the maximum.
KrokoExtended(buffer, chunk) ==
    LET b == Append(buffer, chunk)
    IN  IF Len(b) >= KrokoMinChunks /\ Len(b) > KrokoMaxBufferChunks
        THEN <<>> ELSE b

\* KrokoStreamAudio without the test of streaming_active.
KrokoStreamAudioUnchecked ==
    /\ UNCHANGED notKroko
    /\ kroko_requests < MaxKrokoRequests
    /\ kroko_requests' = kroko_requests + 1
    /\ kroko_request' = "stream_audio"
    /\ \E valid \in BOOLEAN, speech \in BOOLEAN :
        IF ~model_loaded \/ ~valid
        THEN kroko_status' = "error" /\ UNCHANGED kroko_audio_buffer
        ELSE /\ kroko_status' = "success"
             /\ kroko_audio_buffer' =
                    IF speech
                    THEN KrokoExtended(kroko_audio_buffer, kroko_requests + 1)
                    ELSE <<>>
    /\ UNCHANGED <<streaming_active, model_loaded, kroko_dropped>>

\* handle_stream_audio (lines 438-560): the error results of lines 442-454
\* and 463-468 (valid: the body carries audio_data), then the chunk is added
\* when it is speech, and the buffer is cleared when it is silence.
KrokoStreamAudio ==
    /\ UNCHANGED notKroko
    /\ kroko_requests < MaxKrokoRequests
    /\ kroko_requests' = kroko_requests + 1
    /\ kroko_request' = "stream_audio"
    /\ \E valid \in BOOLEAN, speech \in BOOLEAN :
        IF ~streaming_active \/ ~model_loaded \/ ~valid
        THEN kroko_status' = "error" /\ UNCHANGED kroko_audio_buffer
        ELSE /\ kroko_status' = "success"
             /\ kroko_audio_buffer' =
                    IF speech
                    THEN KrokoExtended(kroko_audio_buffer, kroko_requests + 1)
                    ELSE <<>>
    /\ UNCHANGED <<streaming_active, model_loaded, kroko_dropped>>

NextKroko ==
    \/ KrokoLoadModel
    \/ KrokoStartStreaming
    \/ KrokoStopStreaming
    \/ KrokoStreamAudio

\* ---------------------------------------------------------------------
\* WhisperLiveKitStreamingService (whisper_livekit_service.py): PyAudio
\* calls _audio_callback on its own thread for every frame, and each
\* _process_audio_buffer runs on a thread of its own (line 243) or on the
\* thread of stop_realtime_capture (line 202).  A frame is named by the
\* clock at which it was captured.
\* ---------------------------------------------------------------------
MaxLkFrames == 4
MaxLkRuns == 2
\* silence_threshold_ms, min_audio_duration_ms, max_audio_duration_ms
\* (lines 75-77), in frames.
LkSilenceTicks == 1
LkMinTicks == 1
LkMaxTicks == 3

LkRuns == 1..MaxLkRuns

InitLk ==
    /\ lk_now = 0
    /\ lk_streaming = FALSE
    /\ lk_buffer = <<>>
    /\ lk_last_speech_time = 0
    /\ lk_speech_start_time = 0
    /\ processing_lock = 0
    /\ lk_pc = [r \in LkRuns |-> "none"]
    /\ lk_audio = [r \in LkRuns |-> <<>>]
    /\ lk_spawned = 0
    /\ lk_speech = {}

\* start_realtime_capture (lines 135-177), by a caller whose earlier stop
\* has returned.
LkStartRealtimeCapture ==
    /\ UNCHANGED notLk
    /\ ~lk_streaming
    /\ \A r \in LkRuns : lk_pc[r] \in {"none", "done"}
    /\ lk_streaming' = TRUE
    /\ lk_buffer' = <<>>
    /\ UNCHANGED <<lk_now, lk_last_speech_time, lk_speech_start_time,
                   processing_lock, lk_pc, lk_audio, lk_spawned, lk_speech>>

\* should_process and total_duration >= self.min_audio_duration_ms (lines
\* 232-241), at current_time = t.
LkShouldProcess(t) ==
    /\ \/ t - lk_last_speech_time >= LkSilenceTicks
       \/ t - lk_speech_start_time >= LkMaxTicks
    /\ t - lk_speech_start_time >= LkMinTicks

\* _audio_callback (lines 206-249) for one frame: a speech frame joins the
\* buffer; a silence frame starts a _process_audio_buffer thread when the
\* buffered speech is due.
LkAudioCallback ==
    /\ UNCHANGED notLk
    /\ lk_streaming
    /\ lk_now < MaxLkFrames
    /\ lk_now' = lk_now + 1
    /\ \E sp \in BOOLEAN :
        IF sp
        THEN /\ lk_buffer' = Append(lk_buffer, lk_now + 1)
             /\ lk_speech' = lk_speech \cup {lk_now + 1}
             /\ lk_last_speech_time' = lk_now + 1
             /\ lk_speech_start_time' =
                    IF lk_speech_start_time = 0 THEN lk_now + 1
                    ELSE lk_speech_start_time
             /\ UNCHANGED <<lk_pc, lk_spawned>>
        ELSE /\ IF lk_buffer # <<>> /\ LkShouldProcess(lk_now + 1)
                THEN /\ lk_spawned < MaxLkRuns
                     /\ lk_spawned' = lk_spawned + 1
                     /\ lk_pc' = [lk_pc EXCEPT ![lk_spawned + 1] = "start"]
                ELSE UNCHANGED <<lk_pc, lk_spawned>>
             /\ UNCHANGED <<lk_buffer, lk_speech, lk_last_speech_time,
                            lk_speech_start_time>>
    /\ UNCHANGED <<lk_streaming, processing_lock, lk_audio>>

\* stop_realtime_capture (lines 179-204): the stream is closed, and with
\* audio left in the buffer _process_audio_buffer(force=True) is run.
LkStopRealtimeCapture ==
    /\ UNCHANGED notLk
    /\ lk_streaming
    /\ lk_streaming' = FALSE
    /\ IF lk_buffer # <<>>
       THEN /\ lk_spawned < MaxLkRuns
            /\ lk_spawned' = lk_spawned + 1
            /\ lk_pc' = [lk_pc EXCEPT ![lk_spawned + 1] = "start"]
       ELSE UNCHANGED <<lk_pc, lk_spawned>>
    /\ UNCHANGED <<lk_now, lk_buffer, lk_last_speech_time,
                   lk_speech_start_time, processing_lock, lk_audio, lk_speech>>

\* _process_audio_buffer, lines 287-288: an empty buffer returns at once.
LkProcessCheck(r) ==
    /\ UNCHANGED notLk
    /\ lk_pc[r] = "start"
    /\ lk_pc' = [lk_pc EXCEPT ![r] = IF lk_buffer = <<>> THEN "done" ELSE "wait"]
    /\ UNCHANGED <<lk_now, lk_streaming, lk_buffer, lk_last_speech_time,
                   lk_speech_start_time, processing_lock, lk_audio, lk_spawned,
                   lk_speech>>

\* Lines 290-293: processing_lock is acquired and audio_data is built from
\* the buffer as it is then.
LkProcessCopy(r) ==
    /\ UNCHANGED notLk
    /\ lk_pc[r] = "wait"
    /\ processing_lock = 0
    /\ processing_lock' = r
    /\ lk_audio' = [lk_audio EXCEPT ![r] = lk_buffer]
    /\ lk_pc' = [lk_pc EXCEPT ![r] = "run"]
    /\ UNCHANGED <<lk_now, lk_streaming, lk_buffer, lk_last_speech_time,
                   lk_speech_start_time, lk_spawned, lk_speech>>

\* Lines 295-349: the audio is transcribed, the finally block clears the
\* buffer and the timing, and the lock is released.
LkProcessFinally(r) ==
    /\ UNCHANGED notLk
    /\ lk_pc[r] = "run"
    /\ lk_buffer' = <<>>
    /\ lk_speech_start_time' = 0
    /\ lk_last_speech_time' = 0
    /\ processing_lock' = 0
    /\ lk_pc' = [lk_pc EXCEPT ![r] = "done"]
    /\ UNCHANGED <<lk_now, lk_streaming, lk_audio, lk_spawned, lk_speech>>

NextLk ==
    \/ LkStartRealtimeCapture
    \/ LkAudioCallback
    \/ LkStopRealtimeCapture
    \/ \E r \in LkRuns :
          \/ LkProcessCheck(r)
          \/ LkProcessCopy(r)
          \/ LkProcessFinally(r)

\* ---------------------------------------------------------------------
\* ContinuousAudioService._detect_speech (continuous_audio_service.py,
\* lines 196-210) as a function of the frame and of what the VAD does.
\* audio_np is an int16 array, so np.abs works in 16 bits; np.mean adds up
\* in floating point.
\* ---------------------------------------------------------------------
MaxSamples == 2
\* self.chunk_size (line 37), in samples of the model's frames.
ChunkSize == 2
EnergyThreshold == 500

\* The least int16 and some quiet and loud samples.
Int16Min == -(2^15)
Samples == {Int16Min, -600, 0, 400, 600}

Frames == UNION {[1..n -> Samples] : n \in 1..MaxSamples}

\* np.abs on an int16: the absolute value of -32768 does not fit and comes
\* out as -32768.
AbsInt16(x) == IF x = Int16Min THEN Int16Min ELSE IF x < 0 THEN -x ELSE x

RECURSIVE SumAbsInt16(_)
SumAbsInt16(frame) ==
    IF frame = <<>> THEN 0
    ELSE AbsInt16(Head(frame)) + SumAbsInt16(Tail(frame))

\* np.mean(np.abs(audio_np)) > 500 (lines 204-205 and 209-210).
Energy(frame) == SumAbsInt16(frame) > EnergyThreshold * Len(frame)

\* _detect_speech(audio_data, audio_np): len(audio_data) is two bytes per
\* sample.
DetectSpeechResult(frame, vad, raises, answer) ==
    IF vad /\ 2 * Len(frame) = ChunkSize * 2
    THEN IF raises THEN Energy(frame) ELSE answer
    ELSE Energy(frame)

InitDetect ==
    /\ ds_frame = <<>>
    /\ ds_vad = FALSE
    /\ ds_vad_raises = FALSE
    /\ ds_vad_answer = FALSE
    /\ ds_called = FALSE
    /\ ds_result = FALSE

\* A call of _detect_speech on any frame, with or without a VAD.
DetectSpeech ==
    /\ UNCHANGED notDetect
    /\ \E frame \in Frames, vad, raises, answer \in BOOLEAN :
        /\ ds_frame' = frame
        /\ ds_vad' = vad
        /\ ds_vad_raises' = raises
        /\ ds_vad_answer' = answer
        /\ ds_called' = TRUE
        /\ ds_result' = DetectSpeechResult(frame, vad, raises, answer)

NextDetect == DetectSpeech

\* ---------------------------------------------------------------------
\* bin/vad_detector.py: detect_speech(audio_file) on a WAV file.
\* ---------------------------------------------------------------------

\* The files tried hold up to MaxVadFrames complete frames and a rest.
MaxVadFrames == 4
\* frame_size, line 27, in bytes: 640 at 16 kHz, scaled down.
VadFrameBytes == 2
\* speech_ratio > 0.3, line 42, in percent.
SpeechRatioPercent == 30

\* The lengths in bytes of the audio of the files tried.
VadLengths == 0..(MaxVadFrames * VadFrameBytes + VadFrameBytes - 1)

\* range(0, len(frames) - frame_size, frame_size), line 32.
VadStarts(len) ==
    {start \in 0..(len - VadFrameBytes - 1) : start % VadFrameBytes = 0}

\* len(frames[start:start + frame_size]), line 33: a slice stops at the end
\* of the bytes.
VadChunkLen(len, start) ==
    IF start + VadFrameBytes <= len THEN VadFrameBytes ELSE len - start

\* The chunks the loop counts, line 34, by their start.
VadCounted(len) ==
    {start \in VadStarts(len) : VadChunkLen(len, start) = VadFrameBytes}

\* total_frames after the loop of lines 32-37.
VadTotalFrames(len) == Cardinality(VadCounted(len))

\* speech_frames after the loop; the chunk that starts at byte start is
\* frame start / frame_size + 1 of the file.
VadSpeechFrames(len, speech) ==
    Cardinality({start \in VadCounted(len) :
                    speech[(start \div VadFrameBytes) + 1]})

\* What detect_speech returns, lines 8-49.
VadDetectSpeech(valid, len, speech, raises, big) ==
    IF ~valid THEN FALSE
    ELSE IF raises THEN big
    ELSE IF VadTotalFrames(len) > 0
         THEN 100 * VadSpeechFrames(len, speech)
                  > SpeechRatioPercent * VadTotalFrames(len)
         ELSE FALSE

\* Before detect_speech is called.
InitVad ==
    /\ vd_valid = FALSE
    /\ vd_len = 0
    /\ vd_speech = <<>>
    /\ vd_raises = FALSE
    /\ vd_big = FALSE
    /\ vd_called = FALSE
    /\ vd_total = 0
    /\ vd_result = FALSE

\* The call detect_speech(audio_file), on any of the files tried and with
\* any answers of the VAD on its frames.
VadDetect ==
    /\ UNCHANGED notVad
    /\ \E valid, raises, big \in BOOLEAN, len \in VadLengths :
       \E speech \in [1..(len \div VadFrameBytes) -> BOOLEAN] :
        /\ vd_valid' = valid
        /\ vd_len' = len
        /\ vd_speech' = speech
        /\ vd_raises' = raises
        /\ vd_big' = big
        /\ vd_called' = TRUE
        /\ vd_total' = IF valid /\ ~raises THEN VadTotalFrames(len) ELSE 0
        /\ vd_result' = VadDetectSpeech(valid, len, speech, raises, big)

NextVad == VadDetect

Init ==
    /\ InitCAS /\ InitRaceVars /\ InitSAS /\ InitWhisper /\ InitKroko /\ InitLk
    /\ InitDetect /\ InitVad

SpecLk == Init /\ [][NextLk]_vars


SpecKroko == Init /\ [][NextKroko]_vars

\* A step that handles a request of the given path.
KrokoHandles(path) ==
    kroko_requests' = kroko_requests + 1 /\ kroko_request' = path

\* C25: a /stream_audio request while streaming is not active (before
\* /start_streaming or after /stop_streaming) is answered with an error
\* result and leaves audio_buffer as it was; /stop_streaming always leaves
\* audio_buffer empty.
C25_InactivePushRejected ==
    [][/\ (KrokoHandles("stream_audio") /\ ~streaming_active) =>
            /\ kroko_status' = "error"
            /\ UNCHANGED <<kroko_audio_buffer, streaming_active>>
       /\ KrokoHandles("stop_streaming") =>
            /\ kroko_audio_buffer' = <<>>
            /\ ~streaming_active'
      ]_vars

\* Streaming was started, chunks were buffered, /stop_streaming cleared
\* them, and a chunk pushed after that was answered with an error although
\* the model is loaded.
C25_Witness ==
    /\ kroko_request = "stream_audio"
    /\ kroko_status = "error"
    /\ ~streaming_active
    /\ model_loaded
    /\ kroko_dropped >= 2
    /\ kroko_audio_buffer = <<>>


SpecWhisper == Init /\ [][NextWhisper]_vars

\* The processors created for session id s.
ProcessorsOf(s) == {k \in 1..Len(created) : created[k] = s}

\* C20: concurrent stream_audio_chunk calls that are each the first chunk
\* of the same unseen session_id create exactly one processor: the session
\* has one entry, every call on it obtains that processor, and a call that
\* has returned has inserted its chunk into it.
C20_OneProcessorPerSession ==
    \A s \in SessionIds :
        /\ Cardinality(ProcessorsOf(s)) <= 1
        /\ \A c \in Clients :
              (ws_sid[c] = s /\ ws_pc[c] \in {"insert", "done"}) =>
                  /\ ProcessorsOf(s) = {streaming_sessions[s]}
                  /\ ws_processor[c] = streaming_sessions[s]
                  /\ ws_pc[c] = "done" => c \in inserted[streaming_sessions[s]]

\* Two calls on the same session id, unseen before them, are under way at
\* once: both have left the locked section with the one processor that was
\* created, and neither has returned yet.
C20_Witness ==
    \E c1, c2 \in Clients :
        /\ c1 # c2
        /\ ws_sid[c1] = ws_sid[c2]
        /\ ws_pc[c1] = "insert" /\ ws_pc[c2] = "insert"
        /\ ws_processor[c1] = ws_processor[c2]
        /\ ProcessorsOf(ws_sid[c1]) = {ws_processor[c1]}
        /\ inserted[ws_processor[c1]] = {}

\* ---------------------------------------------------------------------
\* finalize_streaming_session (whisper_streaming_service.py lines 274-308)
\* next to stream_audio_chunk: each client makes one call of either kind.
\* ---------------------------------------------------------------------

\* Client c calls finalize_streaming_session(session_id) (line 274).
FinalizeCall(c) ==
    /\ UNCHANGED notWhisper
    /\ ws_pc[c] = "idle"
    /\ \E sid \in SessionIds :
        /\ ws_pc' = [ws_pc EXCEPT ![c] = "f_call"]
        /\ ws_sid' = [ws_sid EXCEPT ![c] = sid]
        /\ ws_result' = [ws_result EXCEPT ![c] = "none"]
        /\ UNCHANGED <<streaming_sessions, session_lock, created, inserted,
                       ws_processor, ws_pushed, received>>

\* Lines 279-283, one step under session_lock: an id that is not registered
\* returns the error result; otherwise the processor is fetched.
FinalizeLookup(c) ==
    /\ UNCHANGED notWhisper
    /\ ws_pc[c] = "f_call"
    /\ session_lock = 0
    /\ IF streaming_sessions[ws_sid[c]] = 0
       THEN /\ ws_result' = [ws_result EXCEPT ![c] = "error"]
            /\ ws_pc' = [ws_pc EXCEPT ![c] = "done"]
            /\ UNCHANGED ws_processor
       ELSE /\ ws_processor' = [ws_processor EXCEPT ![c] =
                                    streaming_sessions[ws_sid[c]]]
            /\ ws_pc' = [ws_pc EXCEPT ![c] = "f_finish"]
            /\ UNCHANGED ws_result
    /\ UNCHANGED <<streaming_sessions, session_lock, created, inserted, ws_sid,
                   ws_pushed, received>>

\* Lines 285-296, outside the lock: processor.finish() and the building of
\* the result either return or raise; a raise is caught at line 306 and
\* answered with the error result, the session still registered.
FinalizeFinish(c) ==
    /\ UNCHANGED notWhisper
    /\ ws_pc[c] = "f_finish"
    /\ \E ok \in BOOLEAN :
        IF ok
        THEN /\ ws_pc' = [ws_pc EXCEPT ![c] = "f_del"]
             /\ UNCHANGED ws_result
        ELSE /\ ws_pc' = [ws_pc EXCEPT ![c] = "done"]
             /\ ws_result' = [ws_result EXCEPT ![c] = "error"]
    /\ UNCHANGED <<streaming_sessions, session_lock, created, inserted, ws_sid,
                   ws_processor, ws_pushed, received>>

\* FinalizeDelete answering success with the entry left in the dictionary.
FinalizeDeleteKeeping(c) ==
    /\ UNCHANGED notWhisper
    /\ ws_pc[c] = "f_del"
    /\ session_lock = 0
    /\ ws_result' = [ws_result EXCEPT ![c] =
            IF streaming_sessions[ws_sid[c]] = 0 THEN "error" ELSE "success"]
    /\ ws_pc' = [ws_pc EXCEPT ![c] = "done"]
    /\ UNCHANGED <<streaming_sessions, session_lock, created, inserted, ws_sid,
                   ws_processor, ws_pushed, received>>

\* Lines 298-304, one step under session_lock: `del` of the entry and the
\* success result; `del` of an entry that is gone raises KeyError, which
\* line 306 catches and answers with the error result.
FinalizeDelete(c) ==
    /\ UNCHANGED notWhisper
    /\ ws_pc[c] = "f_del"
    /\ session_lock = 0
    /\ IF streaming_sessions[ws_sid[c]] = 0
       THEN /\ ws_result' = [ws_result EXCEPT ![c] = "error"]
            /\ UNCHANGED streaming_sessions
       ELSE /\ streaming_sessions' =
                   [streaming_sessions EXCEPT ![ws_sid[c]] = 0]
            /\ ws_result' = [ws_result EXCEPT ![c] = "success"]
    /\ ws_pc' = [ws_pc EXCEPT ![c] = "done"]
    /\ UNCHANGED <<session_lock, created, inserted, ws_sid, ws_processor,
                   ws_pushed, received>>

NextSessions ==
    \E c \in Clients :
        \/ StreamCall(c)
        \/ StreamAcquire(c)
        \/ StreamCheck(c)
        \/ StreamCreate(c)
        \/ StreamFetch(c)
        \/ StreamInsert(c)
        \/ FinalizeCall(c)
        \/ FinalizeLookup(c)
        \/ FinalizeFinish(c)
        \/ FinalizeDelete(c)

SpecSessions == Init /\ [][NextSessions]_vars

\* Client c's finalize call returns the success result in this step.
FinalizeSucceeds(c) ==
    ws_pc[c] = "f_del" /\ ws_pc'[c] = "done" /\ ws_result'[c] = "success"

\* C21: a finalize call that returns success has removed its session id
\* from streaming_sessions; an entry leaves streaming_sessions in no other
\* way, so a session that is never finalized stays registered; and a
\* finalize call on an id that is not registered returns the error result
\* and leaves streaming_sessions as it was, creating no session.
C21_FinalizeRemoves ==
    [][\A c \in Clients :
        /\ FinalizeSucceeds(c) =>
              /\ streaming_sessions[ws_sid[c]] # 0
              /\ streaming_sessions'[ws_sid[c]] = 0
        /\ \A s \in SessionIds :
              (streaming_sessions[s] # 0 /\ streaming_sessions'[s] = 0) =>
                  \E d \in Clients : ws_sid[d] = s /\ FinalizeSucceeds(d)
        /\ (ws_pc[c] = "f_call" /\ ws_pc'[c] # "f_call"
                /\ streaming_sessions[ws_sid[c]] = 0) =>
              /\ ws_pc'[c] = "done"
              /\ ws_result'[c] = "error"
              /\ UNCHANGED <<streaming_sessions, created>>
      ]_vars

\* One finalize call on a registered session has returned success and the
\* id is gone; a second finalize call on the same id, not registered any
\* more, has returned the error result without fetching a processor.
C21_Witness ==
    \E c1, c2 \in Clients :
        /\ c1 # c2
        /\ ws_sid[c1] = ws_sid[c2]
        /\ ws_pc[c1] = "done" /\ ws_result[c1] = "success"
        /\ ws_pushed[c1] = <<>>
        /\ ws_pc[c2] = "done" /\ ws_result[c2] = "error"
        /\ ws_pushed[c2] = <<>>
        /\ ws_processor[c2] = 0
        /\ streaming_sessions[ws_sid[c1]] = 0
        /\ ProcessorsOf(ws_sid[c1]) # {}

\* The finalize calls that have invoked finish() on processor k: a finalize
\* call pushes nothing, and holds a processor from its lookup on.
FinishedBy(k) ==
    {c \in Clients : /\ ws_pushed[c] = <<>>
                     /\ ws_processor[c] = k
                     /\ ws_pc[c] \in {"f_del", "done"}}

\* C37: in every interleaving of finalize_streaming_session and
\* stream_audio_chunk calls on the same session id, finish() is invoked at
\* most once on any processor, and no chunk is inserted into a processor
\* after finish() was invoked on it.
C37_FinishOnceThenNoInsert ==
    /\ [](\A k \in 1..Len(created) : Cardinality(FinishedBy(k)) <= 1)
    /\ [][\A k \in 1..Len(created) :
            Len(received'[k]) > Len(received[k]) => FinishedBy(k) = {}]_vars

\* ---------------------------------------------------------------------
\* Repeated stream_audio_chunk calls: a client whose call has returned
\* makes another one, on any session id; MaxPushers clients make
\* MaxChunks calls between them.
\* ---------------------------------------------------------------------
MaxChunks == 3
MaxPushers == 2

Pushers == 1..MaxPushers

RECURSIVE TotalPushed(_)
TotalPushed(S) ==
    IF S = {} THEN 0
    ELSE LET c == CHOOSE x \in S : TRUE
         IN  Len(ws_pushed[c]) + TotalPushed(S \ {c})

\* stream_audio_chunk has returned to client c (lines 268-272): its locals
\* are gone and the client is free to call again.
StreamReturn(c) ==
    /\ UNCHANGED notWhisper
    /\ ws_pc[c] = "done"
    /\ ws_pc' = [ws_pc EXCEPT ![c] = "idle"]
    /\ ws_sid' = [ws_sid EXCEPT ![c] = 0]
    /\ ws_processor' = [ws_processor EXCEPT ![c] = 0]
    /\ UNCHANGED <<streaming_sessions, session_lock, created, inserted,
                   ws_pushed, ws_result, received>>

\* A further call of stream_audio_chunk, while calls remain.
PushCall(c) == TotalPushed(Clients) < MaxChunks /\ StreamCall(c)

NextPush ==
    \E c \in Pushers :
        \/ PushCall(c)
        \/ StreamAcquire(c)
        \/ StreamCheck(c)
        \/ StreamCreate(c)
        \/ StreamFetch(c)
        \/ StreamInsert(c)
        \/ StreamReturn(c)

SpecPush == Init /\ [][NextPush]_vars

\* The number of client c's calls whose chunk has been inserted.
Completed(c) ==
    IF ws_pc[c] \in {"idle", "done"} THEN Len(ws_pushed[c])
    ELSE Len(ws_pushed[c]) - 1

\* The chunks client c has pushed with session id s in completed calls, in
\* the order of its calls.
PushedTo(c, s) ==
    SelectSeq([n \in 1..Completed(c) |->
                  [client |-> c, n |-> n, sid |-> ws_pushed[c][n]]],
              LAMBDA ch : ch.sid = s)

\* C22: in every interleaving of stream_audio_chunk calls on distinct
\* session ids, a processor receives only chunks pushed with the id of its
\* own session, and what it has received from a client is exactly the
\* chunks that client has pushed with that id, in the order of the pushes.
C22_OwnProcessorInOrder ==
    \A k \in 1..Len(created) :
        /\ \A i \in 1..Len(received[k]) : received[k][i].sid = created[k]
        /\ \A c \in Clients :
              SelectSeq(received[k], LAMBDA ch : ch.client = c)
                  = PushedTo(c, created[k])

\* Two sessions have a processor each: one client has pushed two chunks
\* with the first id, and the call of another client with the second id
\* has its processor and is about to insert its chunk.
C22_Witness ==
    \E k1, k2 \in 1..Len(created) : \E c1, c2 \in Clients :
        /\ k1 # k2 /\ c1 # c2
        /\ Len(PushedTo(c1, created[k1])) = 2
        /\ Len(received[k1]) = 2
        /\ ws_pc[c2] = "insert" /\ ws_sid[c2] = created[k2]
        /\ ws_processor[c2] = k2

Next ==
    \/ StartListening
    \/ AudioCaptureLoop
    \/ SetAgentSpeaking
    \/ GetNextSpeech

Spec == Init /\ [][Next]_vars

----------------------------------------------------------------------------
(* Properties of ContinuousAudioService, handlers not interleaved (Spec). *)

Last(q) == q[Len(q)]
Range(q) == {q[i] : i \in 1..Len(q)}
Queued == Range(speech_queue) \cup Range(buffered_speech)

\* A step that is one iteration of the capture loop.
CaptureStep == total_chunks' = total_chunks + 1
\* A step in which finalize put an utterance on a queue.
Enqueued == processed_utterances' = processed_utterances + 1
\* A step that is a call of set_agent_speaking.
SetAgentStep == UNCHANGED <<total_chunks, returned, lifeVars, last_get>>
\* The accumulator finalize sees in a capture step: speech_frames, after the
\* current frame was added when it is a speech frame.
Accumulated == IF is_speech' THEN Append(speech_frames, now') ELSE speech_frames

\* C1: a run of speech frames shorter than min_speech_duration followed by
\* silence of at least silence_duration is discarded: the silence frame that
\* ends it puts nothing on speech_queue or buffered_speech.
C1_ShortSpeechDiscarded ==
    [][(/\ CaptureStep
        /\ ~is_speech'
        /\ recording_speech
        /\ now' - last_speech_time >= SilenceTicks
        /\ Len(speech_frames) < MinSpeechTicks)
       => UNCHANGED <<speech_queue, buffered_speech>>]_vars

\* C4: with no set_agent_speaking call concurrent with the finalize, an
\* utterance finalized while agent_speaking is true is put on buffered_speech
\* and not on speech_queue, one finalized while it is false on speech_queue
\* and not on buffered_speech.
C4_RoutedByFlag ==
    [][(CaptureStep /\ Enqueued) =>
        IF agent_speaking
        THEN /\ buffered_speech' =
                  Append(buffered_speech, SpeechData(Accumulated, TRUE))
             /\ speech_queue' = speech_queue
        ELSE /\ speech_queue' =
                  Append(speech_queue, SpeechData(Accumulated, FALSE))
             /\ buffered_speech' = buffered_speech]_vars

\* Both routes were taken: an utterance finalized while the agent spoke is
\* held, one finalized while it did not is ready.
C4_Witness ==
    /\ \E u \in Range(buffered_speech) : u.agent_was_speaking
    /\ \E u \in Range(speech_queue) : ~u.agent_was_speaking
    /\ agent_speaking

\* C5: set_agent_speaking(False) with no concurrent finalize moves every
\* utterance of buffered_speech to speech_queue, in held order, behind the
\* utterances already in speech_queue, and leaves buffered_speech empty.
C5_DrainKeepsOrder ==
    [][(SetAgentStep /\ ~agent_speaking') =>
        /\ speech_queue' = speech_queue \o buffered_speech
        /\ buffered_speech' = <<>>]_vars

\* A drain has moved two held utterances behind one that was ready.
C5_Witness ==
    /\ ~agent_speaking
    /\ buffered_speech = <<>>
    /\ Len(speech_queue) = 3
    /\ ~speech_queue[1].agent_was_speaking
    /\ speech_queue[2].agent_was_speaking
    /\ speech_queue[3].agent_was_speaking

\* The frames of the utterances of q, concatenated.
RECURSIVE Flatten(_)
Flatten(q) == IF q = <<>> THEN <<>> ELSE Head(q).frames \o Flatten(Tail(q))

\* Every frame so far was a speech frame, read back to back, and no WAV write
\* failed.
ContinuousSpeech ==
    speech_chunks = total_chunks /\ total_chunks = now /\ wav_errors = 0

\* C8: a speech frame that arrives while accumulating, more than
\* max_speech_duration after speech_start_time, is finalized together with
\* the accumulated frames as one utterance and the state becomes Idle; a
\* speech frame that arrives while Idle starts a fresh accumulator holding
\* exactly that frame (the utterance is enqueued when its WAV file could be
\* written); so the utterances of a continuous stream of speech, followed by
\* the accumulator, hold every frame of the stream exactly once, in order.
C8_ForceFinalizeSplits ==
    /\ [][(CaptureStep /\ is_speech') =>
        /\ (recording_speech /\ now' - speech_start_time > MaxSpeechTicks)
              => /\ ~recording_speech'
                 /\ speech_frames' = <<>>
                 /\ UNCHANGED wav_errors
                       => /\ Enqueued
                          /\ \E u \in Queued' \ Queued :
                                u.frames = Append(speech_frames, now')
        /\ ~recording_speech
              => /\ recording_speech'
                 /\ speech_frames' = <<now'>>
                 /\ speech_start_time' = now']_vars
    /\ [](ContinuousSpeech =>
            Flatten(returned \o speech_queue \o buffered_speech) \o speech_frames
                = [i \in 1..now |-> i])

\* Continuous speech was split: a queued utterance spans more than
\* max_speech_duration and the very next frame, a speech frame, has started
\* the accumulator afresh.
C8_Witness ==
    \E u \in Queued :
        /\ Last(u.frames) - u.frames[1] > MaxSpeechTicks
        /\ recording_speech
        /\ speech_frames = <<now>>
        /\ total_chunks = now
        /\ Last(u.frames) = now - 1

\* C9: with frames arriving back to back in real time, every utterance on
\* speech_queue or buffered_speech has duration <= max_speech_duration.
C9_DurationAtMostMax ==
    (total_chunks = now) => \A u \in Queued : Duration(u) <= MaxSpeechTicks

\* C11: a silence frame that arrives while accumulating, before
\* silence_duration has elapsed since the last speech frame, causes no state
\* transition and is appended to the accumulator.
C11_SilenceFrameRetained ==
    [][(/\ CaptureStep
        /\ ~is_speech'
        /\ recording_speech
        /\ now' - last_speech_time < SilenceTicks)
       => /\ recording_speech'
          /\ speech_frames' = Append(speech_frames, now')]_vars

\* Every utterance enqueued so far, oldest first within each place.
AllUtterances == returned \o speech_queue \o buffered_speech

\* The frames since start_listening, read back to back, are one run of
\* speech frames lasting at least min_speech_duration followed by silence
\* frames only (the speech frames are those of times 1..speech_chunks).
OneRun ==
    /\ total_chunks = now
    /\ last_speech_time = speech_chunks
    /\ speech_chunks >= MinSpeechTicks

\* Nothing is enqueued until the first silence frame at which
\* now - last_speech_time >= silence_duration, and from that frame on exactly
\* one utterance has been enqueued, which holds the frames of the speech run.
OneUtterance ==
    IF now - last_speech_time < SilenceTicks
    THEN AllUtterances = <<>>
    ELSE /\ Len(AllUtterances) = 1
         /\ AllUtterances[1].frames = [i \in 1..speech_chunks |-> i]
         /\ Duration(AllUtterances[1]) = speech_chunks
         /\ ~recording_speech

C13_FramesAccounted ==
    (wav_errors = 0 /\ ~recording_speech) =>
        Len(Flatten(AllUtterances)) + discarded_frames = speech_chunks

\* Idle again after two utterances of several frames each, with silence
\* frames in between.
C13_Witness ==
    /\ wav_errors = 0
    /\ ~recording_speech
    /\ Len(AllUtterances) = 2
    /\ \A i \in 1..2 : Duration(AllUtterances[i]) >= 2
    /\ speech_chunks < total_chunks

\* C14: with a single capture loop, no frame is in two different enqueued
\* utterances, nor in an enqueued utterance and in the accumulator.
C14_FrameInOneUtterance ==
    /\ \A i, j \in 1..Len(AllUtterances) :
          i # j => Range(AllUtterances[i].frames) \cap Range(AllUtterances[j].frames) = {}
    /\ \A i \in 1..Len(AllUtterances) :
          Range(AllUtterances[i].frames) \cap Range(speech_frames) = {}

\* Two utterances were enqueued, the first one cut off at
\* max_speech_duration, and frames are being accumulated for another.
C14_Witness ==
    /\ Len(AllUtterances) = 2
    /\ speech_frames # <<>>
    /\ Duration(AllUtterances[1]) > MaxSpeechTicks

\* C34: a silence frame handled while recording_speech is false changes
\* nothing of the segmentation: recording_speech, speech_frames,
\* speech_start_time, last_speech_time, speech_chunks,
\* processed_utterances, speech_queue and buffered_speech stay as they are.
C34_IdleSilenceNoOp ==
    [][(CaptureStep /\ ~is_speech' /\ ~recording_speech) =>
          UNCHANGED <<recording_speech, speech_frames, speech_start_time,
                      last_speech_time, speech_chunks, processed_utterances,
                      speech_queue, buffered_speech>>
      ]_vars

\* An utterance was finalized and queued, and a silence frame has been
\* handled since: the clock is past the latest time at which the silence
\* that ended the utterance can have been handled.
C34_Witness ==
    /\ processed_utterances = 1
    /\ Len(speech_queue) = 1
    /\ ~recording_speech
    /\ ~is_speech
    /\ last_speech_time > 0
    /\ now - last_speech_time >= SilenceTicks + MaxGap

\* C38: whenever the capture loop has finished handling a frame,
\* recording_speech is true exactly when speech_frames is not empty.
C38_RecordingIffFrames ==
    recording_speech <=> (speech_frames # <<>>)

\* A recording is in progress with two frames accumulated, after one
\* utterance was queued and another was lost to a failed WAV write, each
\* finalization having left the flag false and the accumulator empty.
C38_Witness ==
    /\ recording_speech
    /\ Len(speech_frames) >= 2
    /\ processed_utterances >= 1
    /\ wav_errors = 1

\* A step in which writing the WAV file failed inside finalize.
PersistFailed == wav_errors' = wav_errors + 1

\* C24: when persisting the utterance fails inside finalize, the utterance
\* is dropped: nothing is put on speech_queue or buffered_speech,
\* processed_utterances is unchanged, recording_speech is false and
\* speech_frames empty afterwards, and the capture loop goes on (listening
\* stays true, the next read is due); from that state, as from any state
\* with recording_speech false, the next speech frame starts a new
\* utterance that holds this frame alone.
C24_PersistFailureDrops ==
    [][/\ PersistFailed =>
            /\ CaptureStep
            /\ UNCHANGED <<speech_queue, buffered_speech, processed_utterances>>
            /\ ~recording_speech' /\ speech_frames' = <<>>
            /\ listening' /\ read_pc' = "read"
       /\ (CaptureStep /\ ~recording_speech /\ is_speech') =>
            /\ recording_speech'
            /\ speech_frames' = <<now'>>
            /\ speech_start_time' = now'
      ]_vars

\* Persisting an utterance has failed and nothing was queued or counted; a
\* later speech frame has started a new utterance, which is being
\* accumulated.
C24_Witness ==
    /\ wav_errors = 1
    /\ processed_utterances = 0
    /\ AllUtterances = <<>>
    /\ recording_speech
    /\ Len(speech_frames) >= 2
    /\ listening

----------------------------------------------------------------------------
(* ContinuousAudioService started and stopped any number of times, over a  *)
(* shorter time (SpecListen).                                              *)

\* The clock stops being advanced at about MaxListenTime in SpecListen.
MaxListenTime == 8

\* _audio_capture_loop, while the clock is below MaxListenTime.
ListenCaptureLoop == now < MaxListenTime /\ AudioCaptureLoop

NextListen ==
    \/ StartListening
    \/ StopListening
    \/ ListenCaptureLoop
    \/ SetAgentSpeaking
    \/ GetNextSpeech
    \/ GetNextSpeechTimeout

SpecListen == Init /\ [][NextListen]_vars

\* A step that is a call of stop_listening while listening.
StopStep == listening /\ ~listening'

\* C15: stop_listening called while an utterance is in progress whose
\* accumulated duration is at least min_speech_duration finalizes it: when
\* stop_listening returns the utterance is on speech_queue or buffered_speech.
C15_StopFlushes ==
    [][(/\ StopStep
        /\ recording_speech
        /\ Len(speech_frames) >= MinSpeechTicks
        /\ now - speech_start_time >= MinSpeechTicks)
       => \E u \in Queued' : u.frames = speech_frames]_vars

\* C17: no utterance enqueued after a restart contains a frame that was
\* captured before the stop_listening that preceded it.
C17_OldFramesDiscarded ==
    [][(CaptureStep /\ Enqueued) =>
          \A u \in Queued' \ Queued :
              \A i \in 1..Len(u.frames) : u.frames[i] > stopped_at]_vars

\* A step that is a call of get_next_speech.
GetStep == returned' # returned \/ last_get' # last_get

\* C19: get_next_speech with a zero or finite timeout returns None when
\* speech_queue stays empty, and otherwise removes and returns the oldest
\* utterance of speech_queue; it never returns an utterance that is in
\* buffered_speech, and no utterance is returned by two calls.
C19_GetNextSpeech ==
    /\ [][GetStep =>
            /\ buffered_speech' = buffered_speech
            /\ IF speech_queue = <<>>
               THEN /\ last_get' = None
                    /\ UNCHANGED <<speech_queue, returned>>
               ELSE /\ last_get' = Head(speech_queue)
                    /\ speech_queue' = Tail(speech_queue)
                    /\ returned' = Append(returned, Head(speech_queue))
                    /\ last_get' \notin Range(buffered_speech)]_vars
    /\ [](\A i, j \in 1..Len(returned) : i # j => returned[i] # returned[j])

\* A call returned an utterance that had been held and drained, and a later
\* call timed out on the empty speech_queue while another utterance was held
\* in buffered_speech.
C19_Witness ==
    /\ Len(returned) = 1
    /\ returned[1].agent_was_speaking
    /\ last_get = None
    /\ speech_queue = <<>>
    /\ buffered_speech # <<>>

----------------------------------------------------------------------------
(* Both services started, started again and stopped, over a few frames     *)
(* (SpecStart).                                                            *)

\* The clocks stop being advanced at about MaxBriefTime in SpecStart.
MaxBriefTime == 2

\* _audio_capture_loop of ContinuousAudioService, for a few frames.
BriefAudioCaptureLoop == now < MaxBriefTime /\ AudioCaptureLoop

\* _capture_loop of StreamingAudioService, for a few frames.
BriefCaptureLoop == sas_now < MaxBriefTime /\ CaptureLoop

NextStart ==
    \/ StartListening
    \/ StartListeningAgain
    \/ StopListening
    \/ BriefAudioCaptureLoop
    \/ StartRealtimeCapture
    \/ StartRealtimeCaptureAgain
    \/ StopRealtimeCapture
    \/ BriefCaptureLoop

SpecStart == Init /\ [][NextStart]_vars

\* C18: start is idempotent.  A start_listening call while listening, and a
\* start_realtime_capture call while is_streaming, returns without creating
\* a thread or reopening the stream and without changing the accumulator,
\* the timestamps or any queue: nothing but the record of the call changes.
C18_StartIdempotent ==
    [][/\ (listening /\ start_noop' # start_noop) =>
            UNCHANGED <<casVars, raceVars, histVars, listening, audio_threads,
                        stopped_at>>
       /\ (is_streaming /\ sas_start_noop' # sas_start_noop) =>
            UNCHANGED <<sasVars, sasRaceVars>>
       /\ audio_threads' <= 1]_vars

\* Each service was started again while it was accumulating speech, and
\* goes on with one capture thread and the same accumulator.
C18_Witness ==
    /\ listening /\ start_noop
    /\ audio_threads = 1
    /\ recording_speech /\ speech_frames # <<>>
    /\ is_streaming /\ sas_start_noop
    /\ audio_buffer # <<>>

----------------------------------------------------------------------------
(* ContinuousAudioService with the capture thread and the caller's thread  *)
(* interleaved at every access to agent_speaking and to the two queues     *)
(* (queue.Queue makes each put, get_nowait and empty atomic; nothing else  *)
(* is synchronized).  When finalize is called depends only on the clock    *)
(* and on state private to the capture thread, so here it may be called    *)
(* after any speech frame; every frame is a speech frame and every WAV     *)
(* write succeeds.                                                         *)

\* Speech frames handled in SpecRace.
MaxRaceFrames == 3

\* _handle_speech_detection(True, audio_np), lines 216-228.
RaceSpeechFrame ==
    /\ UNCHANGED <<notCAS, loopVars, faultVars, lifeVars, histVars>>
    /\ listening
    /\ cap_pc = "idle"
    /\ total_chunks < MaxRaceFrames
    /\ now' = now + 1
    /\ total_chunks' = total_chunks + 1
    /\ is_speech' = TRUE
    /\ speech_chunks' = speech_chunks + 1
    /\ last_speech_time' = now + 1
    /\ speech_start_time' = IF recording_speech THEN speech_start_time ELSE now + 1
    /\ recording_speech' = TRUE
    /\ speech_frames' = Extend(IF recording_speech THEN speech_frames ELSE <<>>, now + 1)
    /\ UNCHANGED <<wav_errors, processed_utterances, agent_speaking, speech_queue,
                   buffered_speech, returned, raceVars>>

\* The call of _finalize_speech_recording (line 233 or 246).
RaceFinalizeCall ==
    /\ UNCHANGED <<notCAS, loopVars, faultVars, lifeVars, histVars>>
    /\ cap_pc = "idle"
    /\ recording_speech
    /\ cap_pc' = "finalize"
    /\ UNCHANGED <<casVars, cap_data, cap_route, ctl_pc, ctl_data>>

\* Lines 254-279: the WAV file is written and speech_data built, stamped with
\* agent_speaking as line 278 reads it.
RaceFinalizeStamp ==
    /\ UNCHANGED <<notCAS, loopVars, faultVars, lifeVars, histVars>>
    /\ cap_pc = "finalize"
    /\ IF speech_frames = <<>>
       THEN /\ recording_speech' = FALSE
            /\ cap_pc' = "idle"
            /\ UNCHANGED cap_data
       ELSE /\ cap_data' = SpeechData(speech_frames, agent_speaking)
            /\ cap_pc' = "stamped"
            /\ UNCHANGED recording_speech
    /\ UNCHANGED <<now, is_speech, wav_errors, total_chunks, speech_chunks,
                   processed_utterances, agent_speaking, last_speech_time,
                   speech_start_time, speech_frames, speech_queue,
                   buffered_speech, returned, cap_route, ctl_pc, ctl_data>>

\* Line 282: if self.agent_speaking.
RaceFinalizeRoute ==
    /\ UNCHANGED <<notCAS, loopVars, faultVars, lifeVars, histVars>>
    /\ cap_pc = "stamped"
    /\ cap_route' = agent_speaking
    /\ cap_pc' = "routed"
    /\ UNCHANGED <<casVars, cap_data, ctl_pc, ctl_data>>

\* Lines 283-296: the put on the queue chosen at line 282, the counter, and
\* the finally block.
RaceFinalizePut ==
    /\ UNCHANGED <<notCAS, loopVars, faultVars, lifeVars, histVars>>
    /\ cap_pc = "routed"
    /\ LET q == Dispatch(speech_queue, buffered_speech, cap_data, cap_route)
       IN  /\ speech_queue' = q.speech_queue
           /\ buffered_speech' = q.buffered_speech
    /\ processed_utterances' = processed_utterances + 1
    /\ recording_speech' = FALSE
    /\ speech_frames' = <<>>
    /\ cap_pc' = "idle"
    /\ cap_data' = None
    /\ UNCHANGED <<now, is_speech, wav_errors, total_chunks, speech_chunks,
                   agent_speaking, last_speech_time, speech_start_time,
                   returned, cap_route, ctl_pc, ctl_data>>

\* set_agent_speaking, lines 142-147, up to the call of
\* _process_buffered_speech.
RaceSetAgentSpeaking ==
    /\ UNCHANGED <<notCAS, loopVars, faultVars, lifeVars, histVars>>
    /\ \E speaking \in BOOLEAN :
        /\ ctl_pc = "idle"
        /\ agent_speaking' = speaking
        /\ ctl_pc' = IF speaking THEN "idle" ELSE "drain"
        /\ UNCHANGED <<now, is_speech, wav_errors, total_chunks, speech_chunks,
                       processed_utterances, recording_speech, last_speech_time,
                       speech_start_time, speech_frames, speech_queue,
                       buffered_speech, returned, cap_pc, cap_data, cap_route,
                       ctl_data>>

\* Line 300: while not self.buffered_speech.empty().
RaceDrainTest ==
    /\ UNCHANGED <<notCAS, loopVars, faultVars, lifeVars, histVars>>
    /\ ctl_pc = "drain"
    /\ ctl_pc' = IF buffered_speech = <<>> THEN "idle" ELSE "get"
    /\ UNCHANGED <<casVars, cap_pc, cap_data, cap_route, ctl_data>>

\* Line 302: get_nowait (queue.Empty leaves the loop).
RaceDrainGet ==
    /\ UNCHANGED <<notCAS, loopVars, faultVars, lifeVars, histVars>>
    /\ ctl_pc = "get"
    /\ IF buffered_speech = <<>>
       THEN /\ ctl_pc' = "idle"
            /\ UNCHANGED <<ctl_data, buffered_speech>>
       ELSE /\ ctl_data' = Head(buffered_speech)
            /\ buffered_speech' = Tail(buffered_speech)
            /\ ctl_pc' = "put"
    /\ UNCHANGED <<now, is_speech, wav_errors, total_chunks, speech_chunks,
                   processed_utterances, recording_speech, agent_speaking,
                   last_speech_time, speech_start_time, speech_frames,
                   speech_queue, returned, cap_pc, cap_data, cap_route>>

\* RaceDrainPut dropping the utterance it took.
RaceDrainPutLosing ==
    /\ UNCHANGED <<notCAS, loopVars, faultVars, lifeVars, histVars>>
    /\ ctl_pc = "put"
    /\ ctl_data' = None
    /\ ctl_pc' = "drain"
    /\ UNCHANGED <<casVars, cap_pc, cap_data, cap_route>>

\* Line 303: self.speech_queue.put(speech_data).
RaceDrainPut ==
    /\ UNCHANGED <<notCAS, loopVars, faultVars, lifeVars, histVars>>
    /\ ctl_pc = "put"
    /\ speech_queue' = Append(speech_queue, ctl_data)
    /\ ctl_data' = None
    /\ ctl_pc' = "drain"
    /\ UNCHANGED <<now, is_speech, wav_errors, total_chunks, speech_chunks,
                   processed_utterances, recording_speech, agent_speaking,
                   last_speech_time, speech_start_time, speech_frames,
                   buffered_speech, returned, cap_pc, cap_data, cap_route>>

NextRace ==
    \/ StartListening
    \/ RaceSpeechFrame
    \/ RaceFinalizeCall
    \/ RaceFinalizeStamp
    \/ RaceFinalizeRoute
    \/ RaceFinalizePut
    \/ RaceSetAgentSpeaking
    \/ RaceDrainTest
    \/ RaceDrainGet
    \/ RaceDrainPut
    \/ GetNextSpeech

SpecRace == Init /\ [][NextRace]_vars

----------------------------------------------------------------------------
(* Properties of the interleaved ContinuousAudioService (SpecRace). *)

\* Neither set_agent_speaking nor _finalize_speech_recording is mid-execution.
Quiescent == cap_pc = "idle" /\ ctl_pc = "idle"

\* C2: whenever agent_speaking is false and neither set_agent_speaking nor
\* _finalize_speech_recording is mid-execution, buffered_speech is empty (a
\* drain cannot miss an utterance dispatched concurrently).
C2_DrainMissesNothing ==
    (~agent_speaking /\ Quiescent) => buffered_speech = <<>>

\* C3: once the drain and the dispatch have completed, every utterance
\* finalized is exactly once in exactly one of speech_queue, buffered_speech
\* and the utterances returned by get_next_speech: the three hold as many
\* utterances as were finalized, and these hold every frame finalized exactly
\* once.
C3_NoLossNoDuplicate ==
    Quiescent =>
        LET all == returned \o speech_queue \o buffered_speech
            fr  == Flatten(all) \o speech_frames
        IN  /\ Len(all) = processed_utterances
            /\ Len(fr) = total_chunks
            /\ {fr[i] : i \in 1..Len(fr)} = 1..total_chunks

\* A drain that raced with a dispatch has completed: a held utterance was
\* moved to speech_queue behind one that was finalized after it, which the
\* capture thread dispatched while the drain was under way.
C3_Witness ==
    /\ Quiescent
    /\ \E i \in 1..Len(speech_queue) :
          /\ speech_queue[i].agent_was_speaking
          /\ \E j \in 1..(i-1) : Last(speech_queue[j].frames) > Last(speech_queue[i].frames)

\* C26: an utterance is routed consistently with its stamp, also when
\* set_agent_speaking runs while finalize does: the put of finalize goes to
\* buffered_speech if agent_was_speaking is true in the utterance, and to
\* speech_queue if it is false.
C26_RoutedByStamp ==
    [][(cap_pc = "routed" /\ cap_pc' = "idle") =>
          IF cap_data.agent_was_speaking
          THEN /\ buffered_speech' = Append(buffered_speech, cap_data)
               /\ UNCHANGED speech_queue
          ELSE /\ speech_queue' = Append(speech_queue, cap_data)
               /\ UNCHANGED buffered_speech
      ]_vars

\* C27: utterances leave the ready queue in the order in which they were
\* finalized, in every interleaving: of two utterances get_next_speech has
\* returned, the one returned first holds the earlier frames.
C27_ReturnedInFinalizationOrder ==
    \A i, j \in 1..Len(returned) :
        i < j => Last(returned[i].frames) < Last(returned[j].frames)

----------------------------------------------------------------------------
(* StreamingAudioService, handlers not interleaved (SpecStream). *)

NextStream ==
    \/ StartRealtimeCapture
    \/ CaptureLoop
    \/ StopRealtimeCapture
    \/ ProcessingLoop
    \/ ProcessingLoopExit
    \/ GetTranscriptionResults

SpecStream == Init /\ [][NextStream]_vars

\* The last n elements of q (all of q when it has fewer).
LastN(q, n) == IF Len(q) <= n THEN q ELSE SubSeq(q, Len(q) - n + 1, Len(q))

\* A step in which _queue_audio_for_processing pushes the buffer.
AudioPushStep == audio_buffer # <<>> /\ audio_buffer' = <<>>
\* A step in which _process_audio_data pushes a result.
ResultPushStep == total_processed' = total_processed + 1 /\ clean_text' # ""

\* C7: with no concurrent consumer, a push onto a bounded queue of capacity N
\* (processing_queue by _queue_audio_for_processing, transcription_results by
\* _process_audio_data) leaves the N most recently pushed items, in push
\* order: the new item is behind the others and, when the queue was full,
\* the oldest one is gone.
C7_DropOldest ==
    [][/\ AudioPushStep =>
            processing_queue' =
                LastN(Append(processing_queue, AudioInfo(audio_buffer)),
                      ProcessingQueueMax)
       /\ ResultPushStep =>
            transcription_results' =
                LastN(Append(transcription_results,
                             ResultData(clean_text', Head(processing_queue))),
                      ResultsQueueMax)]_vars

\* Each queue has had an item more than its capacity pushed, and
\* transcription_results is full.
C7_Witness ==
    /\ Len(transcription_results) = ResultsQueueMax
    /\ dropped_audio >= 1
    /\ dropped_results >= 1

\* C10: once speech has been accumulating for at least
\* max_audio_duration_ms the buffer is queued for processing, also when the
\* frames are all speech: at the end of an iteration of the capture loop no
\* buffer holds speech that started max_audio_duration_ms ago or more.
C10_ForcedAtMax ==
    audio_buffer # <<>> => sas_now - sas_speech_start_time < SasMaxTicks

\* C16: stop_realtime_capture puts the audio buffer in progress on
\* processing_queue only if it meets the minimum-duration rule: a buffer
\* shorter than min_audio_duration_ms (in audio held and in time since its
\* speech started) is discarded and not enqueued.
C16_StopFlushesOnlyLongEnough ==
    [][(/\ is_streaming /\ ~is_streaming'
        /\ audio_buffer # <<>>
        /\ Len(audio_buffer) < SasMinTicks
        /\ sas_now - sas_speech_start_time < SasMinTicks)
       => /\ processing_queue' = processing_queue
          /\ audio_buffer' = <<>>]_vars

----------------------------------------------------------------------------
(* StreamingAudioService with the capture thread, inside                   *)
(* _queue_audio_for_processing, and the processing thread interleaved at   *)
(* every operation on processing_queue (SpecStreamRace).  When the capture *)
(* loop calls _queue_audio_for_processing depends only on the clock and on *)
(* state private to the capture thread, so here it may be called after any *)
(* speech frame; every frame is a speech frame.                            *)

\* Speech frames handled in SpecStreamRace.
MaxStreamRaceFrames == 4

\* _capture_loop, lines 205-213: a speech frame joins the buffer.
StreamRaceSpeechFrame ==
    /\ UNCHANGED <<notSAS, iterVars, sas_start_noop, stopVars>>
    /\ is_streaming
    /\ q_pc = "idle"
    /\ sas_now < MaxStreamRaceFrames
    /\ sas_now' = sas_now + 1
    /\ audio_buffer' = Append(audio_buffer, sas_now + 1)
    /\ sas_last_speech_time' = sas_now + 1
    /\ sas_speech_start_time' =
         IF sas_speech_start_time = 0 THEN sas_now + 1 ELSE sas_speech_start_time
    /\ UNCHANGED <<is_streaming, processing_queue, transcription_results,
                   total_processed, clean_text, dropped_audio, dropped_results,
                   processing_alive, taken, sasRaceVars>>

\* The call of _queue_audio_for_processing by the capture loop (line 228),
\* lines 282-297: audio_info is built from the buffer.
StreamRaceQueueCall ==
    /\ UNCHANGED <<notSAS, iterVars, sas_start_noop, stopVars>>
    /\ is_streaming
    /\ q_pc = "idle"
    /\ audio_buffer # <<>>
    /\ q_data' = AudioInfo(audio_buffer)
    /\ q_pc' = "put"
    /\ UNCHANGED <<sasVars, p_pc, p_data>>

\* Line 300: put_nowait; queue.Full leads to line 304.
StreamRaceQueuePut ==
    /\ UNCHANGED <<notSAS, iterVars, sas_start_noop, stopVars>>
    /\ q_pc = "put"
    /\ IF Len(processing_queue) < ProcessingQueueMax
       THEN /\ processing_queue' = Append(processing_queue, q_data)
            /\ q_pc' = "finally"
       ELSE /\ q_pc' = "evict"
            /\ UNCHANGED processing_queue
    /\ UNCHANGED <<sas_now, is_streaming, audio_buffer, sas_last_speech_time,
                   sas_speech_start_time, transcription_results, total_processed,
                   clean_text, dropped_audio, dropped_results, processing_alive,
                   taken, q_data, p_pc, p_data>>

\* Line 304: get_nowait; queue.Empty is passed over (lines 307-308).
StreamRaceQueueEvict ==
    /\ UNCHANGED <<notSAS, iterVars, sas_start_noop, stopVars>>
    /\ q_pc = "evict"
    /\ IF processing_queue = <<>>
       THEN /\ q_pc' = "finally"
            /\ UNCHANGED <<processing_queue, dropped_audio>>
       ELSE /\ processing_queue' = Tail(processing_queue)
            /\ dropped_audio' = dropped_audio + 1
            /\ q_pc' = "reput"
    /\ UNCHANGED <<sas_now, is_streaming, audio_buffer, sas_last_speech_time,
                   sas_speech_start_time, transcription_results, total_processed,
                   clean_text, dropped_results, processing_alive, taken, q_data,
                   p_pc, p_data>>

\* Line 305: put_nowait again; queue.Full is caught at line 310.
StreamRaceQueueReput ==
    /\ UNCHANGED <<notSAS, iterVars, sas_start_noop, stopVars>>
    /\ q_pc = "reput"
    /\ IF Len(processing_queue) < ProcessingQueueMax
       THEN processing_queue' = Append(processing_queue, q_data)
       ELSE UNCHANGED processing_queue
    /\ q_pc' = "finally"
    /\ UNCHANGED <<sas_now, is_streaming, audio_buffer, sas_last_speech_time,
                   sas_speech_start_time, transcription_results, total_processed,
                   clean_text, dropped_audio, dropped_results, processing_alive,
                   taken, q_data, p_pc, p_data>>

\* Lines 312-316, the finally block, and the return.
StreamRaceQueueFinally ==
    /\ UNCHANGED <<notSAS, iterVars, sas_start_noop, stopVars>>
    /\ q_pc = "finally"
    /\ audio_buffer' = <<>>
    /\ sas_speech_start_time' = 0
    /\ sas_last_speech_time' = 0
    /\ q_pc' = "idle"
    /\ q_data' = NoAudio
    /\ UNCHANGED <<sas_now, is_streaming, processing_queue, transcription_results,
                   total_processed, clean_text, dropped_audio, dropped_results,
                   processing_alive, taken, p_pc, p_data>>

\* _processing_loop, line 244: get(timeout=0.5) returns a segment.
StreamRaceGet ==
    /\ UNCHANGED <<notSAS, iterVars, sas_start_noop, stopVars>>
    /\ processing_alive
    /\ p_pc = "idle"
    /\ processing_queue # <<>>
    /\ p_data' = Head(processing_queue)
    /\ processing_queue' = Tail(processing_queue)
    /\ taken' = Append(taken, Head(processing_queue))
    /\ p_pc' = "process"
    /\ UNCHANGED <<sas_now, is_streaming, audio_buffer, sas_last_speech_time,
                   sas_speech_start_time, transcription_results, total_processed,
                   clean_text, dropped_audio, dropped_results, processing_alive,
                   q_pc, q_data>>

\* _processing_loop, line 250: _process_audio_data(audio_data).
StreamRaceProcess ==
    /\ UNCHANGED <<notSAS, iterVars, sas_start_noop, stopVars>>
    /\ \E text \in {"", "text"} :
        /\ p_pc = "process"
        /\ ProcessAudioData(p_data, text)
        /\ p_pc' = "idle"
        /\ p_data' = NoAudio
        /\ UNCHANGED <<sas_now, is_streaming, audio_buffer, sas_last_speech_time,
                       sas_speech_start_time, processing_queue, dropped_audio,
                       processing_alive, taken, q_pc, q_data>>

NextStreamRace ==
    \/ StartRealtimeCapture
    \/ StreamRaceSpeechFrame
    \/ StreamRaceQueueCall
    \/ StreamRaceQueuePut
    \/ StreamRaceQueueEvict
    \/ StreamRaceQueueReput
    \/ StreamRaceQueueFinally
    \/ StreamRaceGet
    \/ StreamRaceProcess
    \/ GetTranscriptionResults

SpecStreamRace == Init /\ [][NextStreamRace]_vars

\* C36: in every interleaving of the capture thread, the processing thread
\* and the polling client, processing_queue holds at most its maxsize of
\* segments, transcription_results at most its maxsize of results, and no
\* result in transcription_results has an empty text.
C36_QueuesBounded ==
    /\ Len(processing_queue) <= ProcessingQueueMax
    /\ Len(transcription_results) <= ResultsQueueMax
    /\ \A i \in 1..Len(transcription_results) :
          transcription_results[i].text # ""

\* The capture thread has found processing_queue full and dropped its
\* oldest segment, and the processing thread has transcribed two segments,
\* the last one to an empty text: one result is stored.
C36_Witness ==
    /\ dropped_audio >= 1
    /\ total_processed = 2
    /\ clean_text = ""
    /\ Len(transcription_results) = 1

\* C6: when _queue_audio_for_processing returns, the segment it was called
\* to push is in processing_queue or has been taken from it by the
\* processing thread: the new segment is never the one dropped.
C6_NewSegmentKept ==
    [][(q_pc = "finally" /\ q_pc' = "idle") =>
          \/ q_data \in Range(processing_queue')
          \/ q_data \in Range(taken')]_vars

\* ---------------------------------------------------------------------
\* Reads of the audio stream that raise (continuous_audio_service.py,
\* _audio_capture_loop, lines 173-192).
\* ---------------------------------------------------------------------
MaxFatalTime == 4

FatalCaptureLoop == now < MaxFatalTime /\ AudioCaptureLoop

\* The audio device goes away: from now on every read raises.
DeviceFails ==
    /\ UNCHANGED <<notCAS, loopVars, casVars, lifeVars, histVars, raceVars, read_pc>>
    /\ listening /\ ~device_gone
    /\ device_gone' = TRUE

\* AudioReadFails abandoning the utterance in progress.
AudioReadFailsResetting ==
    /\ UNCHANGED <<notCAS, loopVars, lifeVars, histVars, raceVars, device_gone>>
    /\ listening /\ read_pc = "read"
    /\ read_pc' = "sleep"
    /\ recording_speech' = FALSE
    /\ speech_frames' = <<>>
    /\ UNCHANGED <<now, is_speech, wav_errors, total_chunks, speech_chunks,
                   processed_utterances, agent_speaking, last_speech_time,
                   speech_start_time, speech_queue, buffered_speech, returned>>

\* Line 175 raises, for a moment's trouble or because the device is gone;
\* the handler at lines 189-192 logs it and sleeps.  Nothing else is
\* assigned: listening stays as it is.
AudioReadFails ==
    /\ UNCHANGED <<notCAS, loopVars, casVars, lifeVars, histVars, raceVars, device_gone>>
    /\ listening /\ read_pc = "read"
    /\ read_pc' = "sleep"

\* time.sleep(0.1) at line 192 returns and the loop tests self.listening
\* again (line 173).
AudioReadBackoff ==
    /\ UNCHANGED <<notCAS, loopVars, casVars, lifeVars, histVars, raceVars, device_gone>>
    /\ read_pc = "sleep"
    /\ read_pc' = "read"

NextFatal ==
    \/ StartListening
    \/ StopListening
    \/ FatalCaptureLoop
    \/ DeviceFails
    \/ AudioReadFails
    \/ AudioReadBackoff

\* The capture thread is scheduled as long as it has a step to take; the
\* caller need not call anything.
SpecFatal ==
    /\ Init /\ [][NextFatal]_vars
    /\ WF_vars(FatalCaptureLoop \/ AudioReadFails \/ AudioReadBackoff)

\* C23: a fatal failure of the capture source stops the core: once every
\* read of the audio stream fails, listening eventually becomes false.
C23_FatalFailureStops == (listening /\ device_gone) ~> ~listening

\* C31: a failed read of the audio stream is absorbed by the capture loop:
\* the step leaves listening, recording_speech, speech_frames, speech_queue
\* and buffered_speech as they were, and after the pause the loop is back
\* at its next read unless listening has become false.
C31_ReadFailureAbsorbed ==
    /\ [][(read_pc = "read" /\ read_pc' = "sleep") =>
            UNCHANGED <<listening, recording_speech, speech_frames,
                        speech_queue, buffered_speech, total_chunks>>
         ]_vars
    /\ (listening /\ read_pc = "sleep") ~> (read_pc = "read" \/ ~listening)

\* A read has failed while an utterance was being recorded, the device
\* still being there: the loop is in its pause with the frames kept.
C31_Witness ==
    /\ read_pc = "sleep"
    /\ ~device_gone
    /\ listening
    /\ recording_speech
    /\ Len(speech_frames) >= 2

\* ---------------------------------------------------------------------
\* stop_realtime_capture on its caller's thread, interleaved with
\* _capture_loop and _processing_loop (streaming_audio_service.py).
\* ---------------------------------------------------------------------

\* start_realtime_capture by the caller, who is not inside stop.
StopRaceStart == s_pc = "idle" /\ StartRealtimeCapture

\* Lines 162-167: self.is_streaming = False.
StopRaceBegin ==
    /\ UNCHANGED <<notSAS, iterVars, sas_start_noop>>
    /\ is_streaming
    /\ s_pc = "idle"
    /\ is_streaming' = FALSE
    /\ s_pc' = "flush"
    /\ UNCHANGED <<sas_now, audio_buffer, sas_last_speech_time,
                   sas_speech_start_time, processing_queue, transcription_results,
                   total_processed, clean_text, dropped_audio, dropped_results,
                   processing_alive, taken, sasRaceVars, s_data>>

\* Lines 170-171 and 282-297: with audio in the buffer,
\* _queue_audio_for_processing is called and builds audio_info from it.
StopRaceFlushCall ==
    /\ UNCHANGED <<notSAS, iterVars, sas_start_noop>>
    /\ s_pc = "flush"
    /\ IF audio_buffer = <<>>
       THEN s_pc' = "join" /\ UNCHANGED s_data
       ELSE s_pc' = "put" /\ s_data' = AudioInfo(audio_buffer)
    /\ UNCHANGED <<sasVars, sasRaceVars>>

\* Lines 299-308: put_nowait, the oldest segment making room when the
\* queue is full.
StopRaceFlushPut ==
    /\ UNCHANGED <<notSAS, iterVars, sas_start_noop>>
    /\ s_pc = "put"
    /\ processing_queue' = PutAudio(processing_queue, s_data)
    /\ dropped_audio' = IF Len(processing_queue) < ProcessingQueueMax
                        THEN dropped_audio ELSE dropped_audio + 1
    /\ s_pc' = "finally"
    /\ UNCHANGED <<sas_now, is_streaming, audio_buffer, sas_last_speech_time,
                   sas_speech_start_time, transcription_results, total_processed,
                   clean_text, dropped_results, processing_alive, taken,
                   sasRaceVars, s_data>>

\* Lines 312-316: the finally block of _queue_audio_for_processing.
StopRaceFlushFinally ==
    /\ UNCHANGED <<notSAS, iterVars, sas_start_noop>>
    /\ s_pc = "finally"
    /\ audio_buffer' = <<>>
    /\ sas_speech_start_time' = 0
    /\ sas_last_speech_time' = 0
    /\ s_pc' = "join"
    /\ s_data' = NoAudio
    /\ UNCHANGED <<sas_now, is_streaming, processing_queue, transcription_results,
                   total_processed, clean_text, dropped_audio, dropped_results,
                   processing_alive, taken, sasRaceVars>>

\* Lines 173-188: the stream is closed, the threads are joined for at most
\* two seconds each, and stop_realtime_capture returns.
StopRaceJoin ==
    /\ UNCHANGED <<notSAS, iterVars, sas_start_noop>>
    /\ s_pc = "join"
    /\ s_pc' = "idle"
    /\ UNCHANGED <<sasVars, sasRaceVars, s_data>>

\* _processing_loop, line 241: the loop condition is false and the thread
\* ends.
StopRaceProcessingExit == p_pc = "idle" /\ ProcessingLoopExit

\* The steps of the capture thread, of the processing thread and of the
\* thread inside stop_realtime_capture.
CaptureThread ==
    \/ StreamRaceSpeechFrame
    \/ StreamRaceQueueCall
    \/ StreamRaceQueuePut
    \/ StreamRaceQueueEvict
    \/ StreamRaceQueueReput
    \/ StreamRaceQueueFinally

ProcessingThread ==
    \/ StreamRaceGet
    \/ StreamRaceProcess
    \/ StopRaceProcessingExit

StopThread ==
    \/ StopRaceFlushCall
    \/ StopRaceFlushPut
    \/ StopRaceFlushFinally
    \/ StopRaceJoin

NextStopRace ==
    \/ StopRaceStart
    \/ StopRaceBegin
    \/ CaptureThread
    \/ ProcessingThread
    \/ StopThread

\* Every thread that has a step to take is scheduled; the caller need not
\* call start or stop.
SpecStopRace ==
    /\ Init /\ [][NextStopRace]_vars
    /\ WF_vars(CaptureThread)
    /\ WF_vars(ProcessingThread)
    /\ WF_vars(StopThread)

\* The segments put on processing_queue that were not evicted from it
\* before the processing thread took them, oldest first.
Segments == taken \o processing_queue

\* C28: the same accumulated audio is never enqueued twice, also when the
\* _queue_audio_for_processing of stop_realtime_capture runs while the
\* capture loop is inside _queue_audio_for_processing: no frame is in two
\* segments.
C28_NoAudioEnqueuedTwice ==
    \A i, j \in 1..Len(Segments) :
        i # j => Range(Segments[i].audio_data) \cap Range(Segments[j].audio_data) = {}

\* Frame t is in a segment waiting on processing_queue.
FrameQueued(t) ==
    \E i \in 1..Len(processing_queue) : t \in Range(processing_queue[i].audio_data)

\* C29: every segment put on processing_queue eventually leaves it,
\* dequeued by the processing thread unless it is evicted; this holds of
\* the segment stop_realtime_capture flushes after it has set is_streaming
\* to false.
C29_QueuedSegmentProcessed ==
    \A t \in 1..MaxStreamRaceFrames : FrameQueued(t) ~> ~FrameQueued(t)

\* The runs of _process_audio_buffer whose audio array holds frame t.
RunsWith(t) == {r \in LkRuns : t \in Range(lk_audio[r])}

\* C30: a speech frame that _audio_callback appends to audio_buffer while a
\* _process_audio_buffer thread runs is not lost: every speech frame is
\* still in the buffer or is in the audio array of a run, and it is in the
\* audio array of one run at most.
C30_SpeechFrameInOneRun ==
    \A t \in lk_speech :
        /\ t \in Range(lk_buffer) \/ RunsWith(t) # {}
        /\ Cardinality(RunsWith(t)) <= 1

\* ---------------------------------------------------------------------
\* The ending of the two threads of ContinuousAudioService
\* (continuous_audio_service.py): start_listening starts
\* _audio_capture_loop and _processing_loop, stop_listening clears
\* listening and joins them for at most two seconds each.
\* ---------------------------------------------------------------------
MaxLoopTime == 3

\* start_listening (lines 80-113) with the threads it starts; when the
\* stream cannot be opened, line 113 calls stop_listening.
LoopStartListening ==
    /\ UNCHANGED <<notCAS, faultVars, histVars>>
    /\ ~listening
    /\ \E opened \in BOOLEAN :
        IF opened
        THEN /\ listening' = TRUE
             /\ audio_threads' = audio_threads + 1
             /\ cap_alive' = TRUE
             /\ mon_pc' = IF mon_pc = "none" THEN "test" ELSE mon_pc
             /\ UNCHANGED stopped_at
        ELSE /\ listening' = FALSE
             /\ stopped_at' = now
             /\ UNCHANGED <<audio_threads, cap_alive, mon_pc>>
    /\ UNCHANGED <<casVars, raceVars, start_noop>>

\* stop_listening (lines 115-138): the flag is cleared; the joins return
\* after two seconds at the latest, whether or not the threads have ended.
LoopStopListening ==
    /\ UNCHANGED <<notCAS, faultVars, histVars>>
    /\ listening
    /\ listening' = FALSE
    /\ audio_threads' = 0
    /\ stopped_at' = now
    /\ UNCHANGED <<casVars, raceVars, start_noop, cap_alive, mon_pc>>

\* One iteration of _audio_capture_loop whose read returns.
LoopCapture == cap_alive /\ now < MaxLoopTime /\ AudioCaptureLoop

\* One iteration whose read raises, and the end of its pause.
LoopReadFails == cap_alive /\ AudioReadFails
LoopReadBackoff == cap_alive /\ AudioReadBackoff

\* LoopCaptureExit pausing and going on where the loop should end.
LoopCaptureExitPausing ==
    /\ UNCHANGED <<notCAS, casVars, lifeVars, histVars, raceVars, device_gone>>
    /\ cap_alive
    /\ ~listening
    /\ read_pc = "read"
    /\ read_pc' = "sleep"
    /\ UNCHANGED <<cap_alive, mon_pc>>

\* Line 173: `while self.listening` is false at the top of an iteration and
\* _audio_capture_loop ends.
LoopCaptureExit ==
    /\ UNCHANGED <<notCAS, casVars, lifeVars, histVars, raceVars, faultVars>>
    /\ cap_alive
    /\ ~listening
    /\ read_pc = "read"
    /\ cap_alive' = FALSE
    /\ UNCHANGED mon_pc

\* _processing_loop, lines 312-316: listening is true and the thread sleeps
\* for a second.
LoopMonitorSleep ==
    /\ UNCHANGED <<notCAS, casVars, lifeVars, histVars, raceVars, faultVars>>
    /\ mon_pc = "test"
    /\ listening
    /\ mon_pc' = "sleep"
    /\ UNCHANGED cap_alive

\* Lines 316-320: the sleep returns, the queue status is logged.
LoopMonitorWake ==
    /\ UNCHANGED <<notCAS, casVars, lifeVars, histVars, raceVars, faultVars>>
    /\ mon_pc = "sleep"
    /\ mon_pc' = "test"
    /\ UNCHANGED cap_alive

\* Line 312: `while self.listening` is false and _processing_loop ends.
LoopMonitorExit ==
    /\ UNCHANGED <<notCAS, casVars, lifeVars, histVars, raceVars, faultVars>>
    /\ mon_pc = "test"
    /\ ~listening
    /\ mon_pc' = "none"
    /\ UNCHANGED cap_alive

CaptureLoopThread ==
    \/ LoopCapture
    \/ LoopReadFails
    \/ LoopReadBackoff
    \/ LoopCaptureExit

MonitorLoopThread ==
    \/ LoopMonitorSleep
    \/ LoopMonitorWake
    \/ LoopMonitorExit

NextLoops ==
    \/ LoopStartListening
    \/ LoopStopListening
    \/ CaptureLoopThread
    \/ MonitorLoopThread

\* Both threads are scheduled as long as they have a step to take, and
\* every read and every sleep returns; the caller need not call anything.
SpecLoops ==
    /\ Init /\ [][NextLoops]_vars
    /\ WF_vars(CaptureLoopThread)
    /\ WF_vars(MonitorLoopThread)

\* C32: after stop_listening has set listening to false, the capture loop
\* and the monitoring loop each end, unless listening is set to true again
\* before they have tested it.
C32_LoopsTerminate ==
    /\ (~listening /\ cap_alive) ~> (~cap_alive \/ listening)
    /\ (~listening /\ mon_pc # "none") ~> (mon_pc = "none" \/ listening)

\* Frames were captured, stop_listening ran, and both threads have ended.
C32_Witness ==
    /\ ~listening
    /\ stopped_at > 0
    /\ total_chunks > 0
    /\ audio_threads = 0
    /\ ~cap_alive
    /\ mon_pc = "none"

SpecDetect == Init /\ [][NextDetect]_vars

RECURSIVE SumAbs(_)
SumAbs(frame) ==
    IF frame = <<>> THEN 0
    ELSE (IF Head(frame) < 0 THEN -Head(frame) ELSE Head(frame))
             + SumAbs(Tail(frame))

\* The mean absolute amplitude of the frame is above 500.
MeanAbsAboveThreshold(frame) == SumAbs(frame) > EnergyThreshold * Len(frame)

\* C33: _detect_speech raises nothing and returns the VAD's answer when a
\* VAD is present, the frame has exactly chunk_size * 2 bytes and the VAD
\* call succeeds, and in every other case the energy answer for the frame,
\* mean absolute amplitude > 500.
C33_DetectSpeech ==
    ds_called =>
        ds_result =
            IF ds_vad /\ Len(ds_frame) = ChunkSize /\ ~ds_vad_raises
            THEN ds_vad_answer
            ELSE MeanAbsAboveThreshold(ds_frame)

----------------------------------------------------------------------------
(* ContinuousAudioService asked for its status while it captures           *)
(* (SpecStatus).                                                           *)

\* The clock stops being advanced at about MaxStatusTime in SpecStatus.
MaxStatusTime == 6

\* _audio_capture_loop, while the clock is below MaxStatusTime.
StatusCaptureLoop == now < MaxStatusTime /\ AudioCaptureLoop

NextStatus ==
    \/ StartListening
    \/ StatusCaptureLoop
    \/ SetAgentSpeaking
    \/ GetNextSpeech
    \/ GetStatus

SpecStatus == Init /\ [][NextStatus]_vars

\* C35: get_status changes no field, queue or flag of the service, and the
\* queue_size and buffered_size it reports are the lengths speech_queue and
\* buffered_speech have when it is called.
C35_GetStatusReadOnly ==
    [][status' # status =>
          /\ UNCHANGED notStatus
          /\ status'.called
          /\ status'.queue_size = Len(speech_queue)
          /\ status'.buffered_size = Len(buffered_speech)
      ]_vars

\* get_status was called while an utterance finalized with the agent
\* speaking was held back, and reported it.
C35_Witness ==
    /\ status.called
    /\ status.buffered_size = 1
    /\ Len(buffered_speech) = 1
    /\ status.queue_size = 0
    /\ status.processed_utterances = 1
    /\ status.listening

----------------------------------------------------------------------------
(* StreamingAudioService: one iteration of _capture_loop statement by      *)
(* statement, next to start_realtime_capture and stop_realtime_capture on  *)
(* the caller's thread (SpecIter).                                         *)

\* Frames read in SpecIter.
MaxIterFrames == 4

\* start_realtime_capture (lines 110-143) once the capture thread of an
\* earlier start has ended: the new capture thread is at its loop test.
IterStart ==
    /\ UNCHANGED <<notSAS, sas_start_noop, stopVars>>
    /\ ~is_streaming
    /\ s_pc = "idle"
    /\ c_pc = "none"
    /\ is_streaming' = TRUE
    /\ audio_buffer' = <<>>
    /\ processing_alive' = TRUE
    /\ c_pc' = "top"
    /\ UNCHANGED <<sas_now, sas_last_speech_time, sas_speech_start_time,
                   processing_queue, transcription_results, total_processed,
                   clean_text, dropped_audio, dropped_results, taken,
                   sasRaceVars>>

\* Line 194, `while self.is_streaming`: the thread goes on to read a frame,
\* or leaves the loop and ends.
IterCheck ==
    /\ UNCHANGED <<notSAS, sas_start_noop, stopVars, sasVars, sasRaceVars>>
    /\ c_pc = "top"
    /\ c_pc' = IF is_streaming THEN "read" ELSE "none"

\* Lines 197-206: a frame is read and classified as speech, and
\* audio_buffer.extend(audio_np) appends it.
IterExtend ==
    /\ UNCHANGED <<notSAS, sas_start_noop, stopVars>>
    /\ c_pc = "read"
    /\ sas_now < MaxIterFrames
    /\ sas_now' = sas_now + 1
    /\ audio_buffer' = Append(audio_buffer, sas_now + 1)
    /\ c_pc' = "stamp_last"
    /\ UNCHANGED <<is_streaming, sas_last_speech_time, sas_speech_start_time,
                   processing_queue, transcription_results, total_processed,
                   clean_text, dropped_audio, dropped_results, processing_alive,
                   taken, sasRaceVars>>

\* Line 207: self.last_speech_time = current_time.
IterStampLast ==
    /\ UNCHANGED <<notSAS, sas_start_noop, stopVars>>
    /\ c_pc = "stamp_last"
    /\ sas_last_speech_time' = sas_now
    /\ c_pc' = "stamp_start"
    /\ UNCHANGED <<sas_now, is_streaming, audio_buffer, sas_speech_start_time,
                   processing_queue, transcription_results, total_processed,
                   clean_text, dropped_audio, dropped_results, processing_alive,
                   taken, sasRaceVars>>

\* Lines 210-212: speech_start_time is set if it is 0, and the iteration
\* ends.
IterStampStart ==
    /\ UNCHANGED <<notSAS, sas_start_noop, stopVars>>
    /\ c_pc = "stamp_start"
    /\ sas_speech_start_time' =
          IF sas_speech_start_time = 0 THEN sas_now ELSE sas_speech_start_time
    /\ c_pc' = "top"
    /\ UNCHANGED <<sas_now, is_streaming, audio_buffer, sas_last_speech_time,
                   processing_queue, transcription_results, total_processed,
                   clean_text, dropped_audio, dropped_results, processing_alive,
                   taken, sasRaceVars>>

\* Lines 197-228 for a frame classified as silence: the buffer is queued if
\* it holds audio and should_process says so, and the iteration ends.
IterSilenceFrame ==
    /\ UNCHANGED <<notSAS, sas_start_noop, stopVars>>
    /\ c_pc = "read"
    /\ sas_now < MaxIterFrames
    /\ sas_now' = sas_now + 1
    /\ IF audio_buffer # <<>> /\ ShouldProcess(sas_now + 1)
       THEN QueueAudioForProcessing
       ELSE UNCHANGED <<audio_buffer, sas_speech_start_time,
                        sas_last_speech_time, processing_queue, dropped_audio>>
    /\ c_pc' = "top"
    /\ UNCHANGED <<is_streaming, transcription_results, total_processed,
                   clean_text, dropped_results, processing_alive, taken,
                   sasRaceVars>>

\* The steps of the capture thread in SpecIter.
IterCaptureThread ==
    \/ IterCheck
    \/ IterExtend
    \/ IterStampLast
    \/ IterStampStart
    \/ IterSilenceFrame

NextIter ==
    \/ IterStart
    \/ StopRaceBegin
    \/ StopThread
    \/ IterCaptureThread

SpecIter == Init /\ [][NextIter]_vars

\* A step that ends an iteration of the capture loop.
IterationEnds == c_pc \in {"read", "stamp_start"} /\ c_pc' = "top"

\* A step in which the _queue_audio_for_processing of stop returns.
FlushReturns == s_pc = "finally" /\ s_pc' = "join"

\* C39: at the end of every iteration of the capture loop and after every
\* call of _queue_audio_for_processing, audio_buffer is empty exactly when
\* speech_start_time is 0, and last_speech_time is 0 then too; also when
\* stop_realtime_capture runs during an iteration of the capture loop.
C39_BufferIffTiming ==
    [][(IterationEnds \/ FlushReturns) =>
          /\ (audio_buffer' = <<>>) <=> (sas_speech_start_time' = 0)
          /\ (audio_buffer' = <<>>) => (sas_last_speech_time' = 0)
      ]_vars

----------------------------------------------------------------------------
(* bin/vad_detector.py: detect_speech called on one file (SpecVad).        *)

SpecVad == Init /\ [][NextVad]_vars

\* The complete frames of the file, and those the VAD calls speech.
CompleteFrames == vd_len \div VadFrameBytes
SpeechAmong == Cardinality({i \in 1..CompleteFrames : vd_speech[i]})

\* C40: for a valid mono 16-bit file of exactly k complete 20 ms frames,
\* k >= 1, and no failure of the VAD, detect_speech classifies every frame:
\* total_frames is k, and the result is true exactly when more than 30% of
\* the k frames are classified as speech.
C40_EveryFrameClassified ==
    (/\ vd_called /\ vd_valid /\ ~vd_raises
     /\ vd_len % VadFrameBytes = 0
     /\ CompleteFrames >= 1)
    => /\ vd_total = CompleteFrames
       /\ vd_result <=> (100 * SpeechAmong > SpeechRatioPercent * CompleteFrames)

====
